---- MODULE Spec2Model ----
(***************************************************************************)
(* Model of the resume-to-PDF renderer of portfolio/pdf_generator.py       *)
(* (ResumePDFGenerator) over the records of portfolio/models.py.           *)
(*                                                                         *)
(* Text.  A Python str is a sequence of atoms.  Text that comes from the   *)
(* database is one character per atom, so upper(), title(), split() and    *)
(* strip() are computed character by character.  A literal of the source   *)
(* ("PROFESSIONAL SUMMARY", " - ", "<b>") is one atom.  Text holds no      *)
(* markup characters; Paragraph() and doc.build() of reportlab are taken   *)
(* to accept every text they are given.                                    *)
(*                                                                         *)
(* "[U+2022]" in an atom stands for the bullet character U+2022.           *)
(*                                                                         *)
(* None.  Python's None is NoneText for a str, NoneDate for a date.        *)
(***************************************************************************)
EXTENDS Integers, Sequences, FiniteSets, TLC

VARIABLES
    resume,         \* the Resume row with its related rows, as stored
    nulls_largest,  \* the database sorts NULL above every value (PostgreSQL) or below (SQLite)
    gens,           \* the ResumePDFGenerator instances constructed so far
    last,           \* the latest generate_resume_pdf call, with what it built
    prev,           \* the call before it
    resumes,        \* the Resume table of the API: id to row
    related,        \* the Experience, Education, Skill and ResumeProject tables: id to row
    portfolio,      \* the PortfolioProject table: id to row
    request,        \* the latest API request, with what its handler did and answered
    renders         \* the regenerations in flight, each with its own locals

\* the renderer called on one resume
rvars == <<resume, nulls_largest, gens, last, prev>>

\* the API (portfolio/views.py) over its tables
dbvars == <<resumes, related, portfolio>>

vars == <<resume, nulls_largest, gens, last, prev,
          resumes, related, portfolio, request, renders>>

-----------------------------------------------------------------------------
(* Bounds *)

MaxSummaryLen == 4
MaxSkills == 2
MaxExperiences == 2
MaxEducations == 1
MaxDescriptionLen == 4

-----------------------------------------------------------------------------
(* Python values *)

NoneText == <<"None">>
NoneDate == [none |-> TRUE]

\* bool(x) of a str, a list or None
Truthy(x) == x # NoneText /\ x # <<>>

\* bool(d) of a date or None
TruthyDate(d) == d # NoneDate

LowerSeq == <<"a","b","c","d","e","f","g","h","i","j","k","l","m",
              "n","o","p","q","r","s","t","u","v","w","x","y","z">>
UpperSeq == <<"A","B","C","D","E","F","G","H","I","J","K","L","M",
              "N","O","P","Q","R","S","T","U","V","W","X","Y","Z">>

Whitespace == {" ", "\n", "\t"}

IsLower(c) == \E i \in DOMAIN LowerSeq : LowerSeq[i] = c
IsUpper(c) == \E i \in DOMAIN UpperSeq : UpperSeq[i] = c
IsCased(c) == IsLower(c) \/ IsUpper(c)

CharUpper(c) ==
    IF IsLower(c) THEN UpperSeq[CHOOSE i \in DOMAIN LowerSeq : LowerSeq[i] = c] ELSE c

CharLower(c) ==
    IF IsUpper(c) THEN LowerSeq[CHOOSE i \in DOMAIN UpperSeq : UpperSeq[i] = c] ELSE c

\* str.upper()
StrUpper(s) == [i \in 1..Len(s) |-> CharUpper(s[i])]

\* str.title(): a cased character is upper case after an uncased one (or at
\* the start) and lower case after a cased one
StrTitle(s) ==
    [i \in 1..Len(s) |->
        IF i = 1 \/ ~IsCased(s[i-1]) THEN CharUpper(s[i]) ELSE CharLower(s[i])]

\* str.split() without arguments: the maximal runs of non-whitespace
RECURSIVE SplitFrom(_, _, _)
SplitFrom(s, i, cur) ==
    IF i > Len(s)
    THEN IF cur = <<>> THEN <<>> ELSE <<cur>>
    ELSE IF s[i] \in Whitespace
         THEN IF cur = <<>>
              THEN SplitFrom(s, i + 1, <<>>)
              ELSE <<cur>> \o SplitFrom(s, i + 1, <<>>)
         ELSE SplitFrom(s, i + 1, Append(cur, s[i]))

StrSplit(s) == SplitFrom(s, 1, <<>>)

\* str.split(sep) for a one-character sep: the pieces between the separators,
\* empty pieces kept
RECURSIVE SplitOnFrom(_, _, _, _)
SplitOnFrom(s, sep, i, cur) ==
    IF i > Len(s)
    THEN <<cur>>
    ELSE IF s[i] = sep
         THEN <<cur>> \o SplitOnFrom(s, sep, i + 1, <<>>)
         ELSE SplitOnFrom(s, sep, i + 1, Append(cur, s[i]))

StrSplitOn(s, sep) == SplitOnFrom(s, sep, 1, <<>>)

\* sep.join(parts)
RECURSIVE StrJoin(_, _)
StrJoin(sep, parts) ==
    IF parts = <<>> THEN <<>>
    ELSE IF Len(parts) = 1 THEN parts[1]
    ELSE parts[1] \o sep \o StrJoin(sep, Tail(parts))

\* str.strip()
RECURSIVE LStrip(_)
LStrip(s) ==
    IF s # <<>> /\ s[1] \in Whitespace THEN LStrip(Tail(s)) ELSE s

RECURSIVE RStrip(_)
RStrip(s) ==
    IF s # <<>> /\ s[Len(s)] \in Whitespace
    THEN RStrip(SubSeq(s, 1, Len(s) - 1))
    ELSE s

StrStrip(s) == RStrip(LStrip(s))

\* x or ''
OrEmpty(x) == IF Truthy(x) THEN x ELSE <<>>

-----------------------------------------------------------------------------
(* Dates and strftime *)

Digit == <<"0","1","2","3","4","5","6","7","8","9">>

MonthAbbr == <<"Jan","Feb","Mar","Apr","May","Jun",
               "Jul","Aug","Sep","Oct","Nov","Dec">>

MonthName == <<"January","February","March","April","May","June","July",
               "August","September","October","November","December">>

TwoDigits(n) == <<Digit[((n \div 10) % 10) + 1], Digit[(n % 10) + 1]>>

\* %Y
FourDigits(n) == TwoDigits(n \div 100) \o TwoDigits(n % 100)

\* date.strftime('%b %Y')
StrftimeMonthYear(d) == <<MonthAbbr[d.m], " ">> \o FourDigits(d.y)

\* %I: the hour on the 12-hour clock
Hour12(h) == IF h % 12 = 0 THEN 12 ELSE h % 12

\* datetime.strftime('%B %d, %Y at %I:%M %p')
StrftimeFooter(t) ==
    <<MonthName[t.m], " ">> \o TwoDigits(t.d) \o <<", ">> \o FourDigits(t.y)
        \o <<" at ">> \o TwoDigits(Hour12(t.h)) \o <<":">> \o TwoDigits(t.mi)
        \o <<" ", IF t.h < 12 THEN "AM" ELSE "PM">>

-----------------------------------------------------------------------------
(* The style sheet: __init__ and setup_custom_styles *)

\* getSampleStyleSheet(): a new sheet on every call, holding reportlab's
\* sample styles and none of the names setup_custom_styles adds
SampleStyleNames ==
    {"Normal", "BodyText", "Italic", "Heading1", "Heading2", "Heading3",
     "Heading4", "Heading5", "Heading6", "Title", "Bullet", "Definition",
     "Code", "UnorderedList", "OrderedList"}

GetSampleStyleSheet == [n \in SampleStyleNames |-> [name |-> n]]

\* the guarded self.styles.add(...) of setup_custom_styles
AddIfAbsent(byName, style) ==
    IF style.name \in DOMAIN byName THEN byName ELSE byName @@ (style.name :> style)

\* the style the loop over ['Company', 'Position', 'Date'] adds for s
ExperienceStyle(byName, s, primary_color, dark_color) ==
    [name |-> s,
     parent |-> byName["Normal"],
     fontSize |-> IF s = "Company" THEN 12 ELSE 11,
     textColor |-> IF s = "Company" THEN dark_color ELSE primary_color,
     spaceAfter |-> IF s # "Date" THEN 2 ELSE 8,
     fontName |-> IF s = "Company" THEN "Helvetica-Bold" ELSE "Helvetica"]

SetupCustomStyles(styles) ==
    LET primary_color == "#2E86AB"
        secondary_color == "#6C757D"
        accent_color == "#2E86AB"
        dark_color == "#2B2D42"
        light_bg == "#F8F9FA"
        s1 == AddIfAbsent(styles,
                [name |-> "NameTitle", parent |-> styles["Heading1"],
                 fontSize |-> 26, textColor |-> primary_color, spaceAfter |-> 8,
                 alignment |-> 1, fontName |-> "Helvetica-Bold"])
        s2 == AddIfAbsent(s1,
                [name |-> "JobTitle", parent |-> s1["Heading2"],
                 fontSize |-> 16, textColor |-> secondary_color, spaceAfter |-> 16,
                 alignment |-> 1, fontName |-> "Helvetica-Oblique"])
        s3 == AddIfAbsent(s2,
                [name |-> "SectionTitle", parent |-> s2["Heading2"],
                 fontSize |-> 14, textColor |-> dark_color, spaceAfter |-> 8,
                 spaceBefore |-> 16, fontName |-> "Helvetica-Bold",
                 leftIndent |-> 0, borderPadding |-> 5, backColor |-> light_bg])
        s4 == AddIfAbsent(s3,
                [name |-> "ContactInfo", parent |-> s3["Normal"],
                 fontSize |-> 10, textColor |-> secondary_color, alignment |-> 1,
                 spaceAfter |-> 8])
        s5 == AddIfAbsent(s4,
                [name |-> "SummaryText", parent |-> s4["Normal"],
                 fontSize |-> 11, textColor |-> dark_color, spaceAfter |-> 12,
                 alignment |-> 0, leading |-> 14])
        s6 == AddIfAbsent(s5,
                [name |-> "CustomBodyText", parent |-> s5["Normal"],
                 fontSize |-> 10, textColor |-> dark_color, spaceAfter |-> 4,
                 leftIndent |-> 10, leading |-> 12])
        s7 == AddIfAbsent(s6,
                [name |-> "LinkStyle", parent |-> s6["Normal"],
                 fontSize |-> 10, textColor |-> accent_color, spaceAfter |-> 4,
                 alignment |-> 1])
        s8 == AddIfAbsent(s7, ExperienceStyle(s7, "Company", primary_color, dark_color))
        s9 == AddIfAbsent(s8, ExperienceStyle(s8, "Position", primary_color, dark_color))
        s10 == AddIfAbsent(s9, ExperienceStyle(s9, "Date", primary_color, dark_color))
    IN  [styles |-> s10,
         primary_color |-> primary_color,
         secondary_color |-> secondary_color,
         accent_color |-> accent_color,
         dark_color |-> dark_color,
         light_bg |-> light_bg]

\* ResumePDFGenerator(): the instance __init__ leaves behind
NewGenerator == SetupCustomStyles(GetSampleStyleSheet)

-----------------------------------------------------------------------------
(* Blocks (reportlab flowables) *)

\* Spacer(1, h * inch); h in tenths of an inch
Spacer(h) == [kind |-> "Spacer", width |-> 1, tenths |-> h]

Paragraph(text, style) == [kind |-> "Paragraph", text |-> text, style |-> style]

\* HRFlowable(width="100%", ...); thickness in half points
HRFlowable(halfpoints, color, spaceAfter, spaceBefore) ==
    [kind |-> "HRFlowable", width |-> "100%", halfpoints |-> halfpoints,
     color |-> color, spaceAfter |-> spaceAfter, spaceBefore |-> spaceBefore]

\* Table(data, colWidths=[doc.width * 0.7, doc.width * 0.3]) with the
\* VALIGN / LEFTPADDING / RIGHTPADDING table style; widths in percent
Table(data) ==
    [kind |-> "Table", data |-> data, colWidths |-> <<70, 30>>,
     style |-> <<"VALIGN TOP", "LEFTPADDING 0", "RIGHTPADDING 0">>]

\* add_section_header(story, title): the blocks it appends
SectionHeader(self, title) ==
    <<Spacer(1),
      Paragraph(<<title>>, self.styles["SectionTitle"]),
      HRFlowable(2, self.primary_color, 8, 4)>>

-----------------------------------------------------------------------------
(* The model classes (portfolio/models.py) and the ORM calls made on them *)

ResumeProjectFields ==
    {"id", "resume", "name", "description", "technologies", "project_url",
     "github_url", "start_date", "end_date"}

\* QuerySet.order_by('-<field>') resolves the name against the model's
\* fields and raises FieldError for a name the model does not have
OrderByResolves(fields, field) == field \in fields \cup {"pk"}

\* the sort key of an ascending order: order_by('start_date')
DateKeyAscending(d, nl) ==
    IF d = NoneDate
    THEN IF nl THEN 0 - 100000000 ELSE 1
    ELSE 0 - (d.y * 10000 + d.m * 100 + d.d)

\* the sort key the database gives a DateField value
DateKey(d, nl) ==
    IF d = NoneDate
    THEN IF nl THEN 100000000 ELSE 0 - 1
    ELSE d.y * 10000 + d.m * 100 + d.d

\* rows with row e put after every row whose key is at least e's
RECURSIVE InsertDesc(_, _, _)
InsertDesc(rows, e, nl) ==
    IF rows = <<>> THEN <<e>>
    ELSE IF DateKey(Head(rows).start_date, nl) >= DateKey(e.start_date, nl)
         THEN <<Head(rows)>> \o InsertDesc(Tail(rows), e, nl)
         ELSE <<e>> \o rows

\* related.all().order_by('-start_date').  The database leaves the order of
\* rows with equal start dates open; rows is the order in which it yields
\* them, so equal rows keep the order of rows.
RECURSIVE OrderByStartDateDesc(_, _)
OrderByStartDateDesc(rows, nl) ==
    IF rows = <<>> THEN <<>>
    ELSE InsertDesc(OrderByStartDateDesc(SubSeq(rows, 1, Len(rows) - 1), nl),
                    rows[Len(rows)], nl)

\* related.exists()
Exists(rows) == rows # <<>>

-----------------------------------------------------------------------------
(* generate_resume_pdf, section by section *)

\* the contact line, appended whether or not there is a contact part
ContactBlocksUnguarded(self, contact_parts) ==
    <<Paragraph(StrJoin(<<" [U+2022] ">>, contact_parts), self.styles["ContactInfo"])>>

\* if contact_parts: story.append(Paragraph(contact_text, ...))
ContactBlocks(self, contact_parts) ==
    IF contact_parts # <<>>
    THEN <<Paragraph(StrJoin(<<" [U+2022] ">>, contact_parts),
                     self.styles["ContactInfo"])>>
    ELSE <<>>

\* resume.name.upper() raises AttributeError when name is None
HeaderRaises(r) == r.name = NoneText

\* # Header Section, # Contact info, # Social Links
HeaderBlocks(self, r) ==
    LET contact_parts ==
            (IF Truthy(r.email) THEN <<r.email>> ELSE <<>>)
            \o (IF Truthy(r.phone) THEN <<r.phone>> ELSE <<>>)
            \o (IF Truthy(r.location) THEN <<r.location>> ELSE <<>>)
        social_links ==
            (IF Truthy(r.linkedin_url)
             THEN <<(<<"LinkedIn: ">> \o r.linkedin_url)>> ELSE <<>>)
            \o (IF Truthy(r.github_url)
                THEN <<(<<"GitHub: ">> \o r.github_url)>> ELSE <<>>)
            \o (IF Truthy(r.portfolio_url)
                THEN <<(<<"Portfolio: ">> \o r.portfolio_url)>> ELSE <<>>)
    IN  <<Spacer(1), Paragraph(StrUpper(r.name), self.styles["NameTitle"])>>
        \o ContactBlocks(self, contact_parts)
        \o (IF social_links # <<>>
            THEN <<Paragraph(StrJoin(<<" | ">>, social_links),
                             self.styles["LinkStyle"])>>
            ELSE <<>>)
        \o <<Spacer(2)>>

\* the summary split on single spaces only
SummaryTextSpacesOnly(summary) == StrJoin(<<" ">>, StrSplitOn(StrStrip(summary), " "))

\* ' '.join(resume.summary.split())
SummaryText(summary) == StrJoin(<<" ">>, StrSplit(summary))

\* # Professional Summary
SummaryBlocks(self, r) ==
    IF Truthy(r.summary) /\ Truthy(StrStrip(r.summary))
    THEN SectionHeader(self, "PROFESSIONAL SUMMARY")
         \o <<Paragraph(SummaryText(r.summary), self.styles["SummaryText"])>>
    ELSE <<>>

\* date_range with the end date, when there is one, shown before "Present"
ExperienceDateRangeEndFirst(exp) ==
    ((IF TruthyDate(exp.start_date) THEN StrftimeMonthYear(exp.start_date) ELSE <<>>)
        \o <<" - ">>)
    \o (IF TruthyDate(exp.end_date)
        THEN StrftimeMonthYear(exp.end_date)
        ELSE IF exp.current THEN <<"Present">> ELSE <<>>)

\* date_range of an experience
ExperienceDateRange(exp) ==
    ((IF TruthyDate(exp.start_date) THEN StrftimeMonthYear(exp.start_date) ELSE <<>>)
        \o <<" - ">>)
    \o (IF exp.current
        THEN <<"Present">>
        ELSE IF TruthyDate(exp.end_date) THEN StrftimeMonthYear(exp.end_date) ELSE <<>>)

\* # Experience description with bullet points
RECURSIVE BulletBlocks(_, _)
BulletBlocks(self, lines) ==
    IF lines = <<>> THEN <<>>
    ELSE (IF Truthy(StrStrip(Head(lines)))
          THEN <<Paragraph(<<"[U+2022] ">> \o StrStrip(Head(lines)),
                           self.styles["CustomBodyText"])>>
          ELSE <<>>)
         \o BulletBlocks(self, Tail(lines))

\* the bullets with one for every line, blank or not
RECURSIVE BulletBlocksKeepBlank(_, _)
BulletBlocksKeepBlank(self, lines) ==
    IF lines = <<>> THEN <<>>
    ELSE <<Paragraph(<<"[U+2022] ">> \o StrStrip(Head(lines)),
                     self.styles["CustomBodyText"])>>
         \o BulletBlocksKeepBlank(self, Tail(lines))

\* the body of the loop with a bullet for every line of the description
ExperienceEntryBlocksKeepBlank(self, exp) ==
    LET exp_data ==
            << <<Paragraph(<<"<b>">> \o OrEmpty(exp.company) \o <<"</b>">>,
                           self.styles["Company"]),
                 Paragraph(ExperienceDateRange(exp), self.styles["Date"])>>,
               <<Paragraph(OrEmpty(exp.position), self.styles["Position"]),
                 Paragraph(<<>>, self.styles["Date"])>> >>
    IN  <<Table(exp_data)>>
        \o (IF Truthy(exp.description)
            THEN BulletBlocksKeepBlank(self, StrSplitOn(OrEmpty(exp.description), "\n"))
            ELSE <<>>)
        \o <<Spacer(1)>>

\* the body of the loop over the experiences
ExperienceEntryBlocks(self, exp) ==
    LET exp_data ==
            << <<Paragraph(<<"<b>">> \o OrEmpty(exp.company) \o <<"</b>">>,
                           self.styles["Company"]),
                 Paragraph(ExperienceDateRange(exp), self.styles["Date"])>>,
               <<Paragraph(OrEmpty(exp.position), self.styles["Position"]),
                 Paragraph(<<>>, self.styles["Date"])>> >>
    IN  <<Table(exp_data)>>
        \o (IF Truthy(exp.description)
            THEN BulletBlocks(self, StrSplitOn(OrEmpty(exp.description), "\n"))
            ELSE <<>>)
        \o <<Spacer(1)>>

RECURSIVE ExperienceLoop(_, _)
ExperienceLoop(self, rows) ==
    IF rows = <<>> THEN <<>>
    ELSE ExperienceEntryBlocks(self, Head(rows)) \o ExperienceLoop(self, Tail(rows))

\* # Professional Experience
ExperienceBlocks(self, r, nl) ==
    IF Exists(r.experiences)
    THEN SectionHeader(self, "PROFESSIONAL EXPERIENCE")
         \o ExperienceLoop(self, OrderByStartDateDesc(r.experiences, nl))
    ELSE <<>>

\* the level names of the source, as str
Beginner == <<"B","e","g","i","n","n","e","r">>
Intermediate == <<"I","n","t","e","r","m","e","d","i","a","t","e">>
Advanced == <<"A","d","v","a","n","c","e","d">>
Expert == <<"E","x","p","e","r","t">>
Other == <<"O","t","h","e","r">>

\* the loop filling skills_by_level (a dict: a function from its keys)
RECURSIVE GroupSkills(_, _)
GroupSkills(skills_by_level, skills) ==
    IF skills = <<>> THEN skills_by_level
    ELSE LET skill == Head(skills)
             level == IF Truthy(skill.level) THEN StrTitle(skill.level) ELSE Other
             d1 == IF level \notin DOMAIN skills_by_level
                   THEN skills_by_level @@ (level :> <<>>)
                   ELSE skills_by_level
             d2 == [d1 EXCEPT ![level] = Append(@, skill.name)]
         IN  GroupSkills(IF Truthy(skill.name) THEN d2 ELSE skills_by_level,
                         Tail(skills))

SkillsByLevel(skills) ==
    GroupSkills([k \in {Beginner, Intermediate, Advanced, Expert} |-> <<>>], skills)

\* the display order, lowest level first
ordered_levels_ascending == <<Beginner, Intermediate, Advanced, Expert>>

ordered_levels == <<Expert, Advanced, Intermediate, Beginner>>

\* the loop over ordered_levels
RECURSIVE LevelBlocks(_, _, _)
LevelBlocks(self, skills_by_level, levels) ==
    IF levels = <<>> THEN <<>>
    ELSE LET level == Head(levels)
             skills == IF level \in DOMAIN skills_by_level
                       THEN skills_by_level[level] ELSE <<>>
         IN  (IF Truthy(skills)
              THEN <<Paragraph(<<"<b><font color=\"black\">">> \o level
                                   \o <<":</font></b>">>,
                               self.styles["Position"]),
                     Paragraph(StrJoin(<<", ">>, skills), self.styles["CustomBodyText"]),
                     Spacer(1)>>
              ELSE <<>>)
             \o LevelBlocks(self, skills_by_level, Tail(levels))

\* # Skills
SkillsBlocks(self, r) ==
    IF Exists(r.skills)
    THEN SectionHeader(self, "TECHNICAL SKILLS")
         \o LevelBlocks(self, SkillsByLevel(r.skills), ordered_levels)
    ELSE <<>>

\* the body of the loop over the projects
ProjectEntryBlocks(self, proj) ==
    LET links ==
            (IF Truthy(proj.project_url)
             THEN <<(<<"Live Demo: ">> \o proj.project_url)>> ELSE <<>>)
            \o (IF Truthy(proj.github_url)
                THEN <<(<<"Source Code: ">> \o proj.github_url)>> ELSE <<>>)
    IN  <<Paragraph(<<"<b>">> \o proj.name \o <<"</b>">>, self.styles["Company"])>>
        \o (IF links # <<>>
            THEN <<Paragraph(StrJoin(<<" | ">>, links), self.styles["LinkStyle"])>>
            ELSE <<>>)
        \o (IF Truthy(proj.description)
            THEN <<Paragraph(proj.description, self.styles["CustomBodyText"])>>
            ELSE <<>>)
        \o (IF Truthy(proj.technologies)
            THEN <<Paragraph(<<"<b>Technologies:</b> ">>
                                 \o StrJoin(<<", ">>, proj.technologies),
                             self.styles["CustomBodyText"])>>
            ELSE <<>>)
        \o <<Spacer(1)>>

RECURSIVE ProjectLoop(_, _)
ProjectLoop(self, rows) ==
    IF rows = <<>> THEN <<>>
    ELSE ProjectEntryBlocks(self, Head(rows)) \o ProjectLoop(self, Tail(rows))

\* # Projects: what the section appends, and whether
\* resume.resume_projects.all().order_by('-created_at') raised.  ResumeProject
\* has no created_at, so no order by it exists; were the name to resolve, the
\* rows would be rendered by ProjectLoop.
ProjectsBlocks(self, r) ==
    IF Exists(r.resume_projects)
    THEN IF OrderByResolves(ResumeProjectFields, "created_at")
         THEN [raised |-> FALSE,
               blocks |-> SectionHeader(self, "PROJECTS")
                              \o ProjectLoop(self, r.resume_projects)]
         ELSE [raised |-> TRUE, blocks |-> SectionHeader(self, "PROJECTS")]
    ELSE [raised |-> FALSE, blocks |-> <<>>]

\* date_range with "Present" for every education without an end date
EducationDateRangeOpenIsPresent(edu) ==
    ((IF TruthyDate(edu.start_date) THEN StrftimeMonthYear(edu.start_date) ELSE <<>>)
        \o <<" - ">>)
    \o (IF edu.current \/ ~TruthyDate(edu.end_date)
        THEN <<"Present">>
        ELSE StrftimeMonthYear(edu.end_date))

\* date_range of an education
EducationDateRange(edu) ==
    ((IF TruthyDate(edu.start_date) THEN StrftimeMonthYear(edu.start_date) ELSE <<>>)
        \o <<" - ">>)
    \o (IF edu.current
        THEN <<"Present">>
        ELSE IF TruthyDate(edu.end_date) THEN StrftimeMonthYear(edu.end_date) ELSE <<>>)

\* the body of the loop over the educations
EducationEntryBlocks(self, edu) ==
    LET edu_data ==
            << <<Paragraph(<<"<b>">> \o OrEmpty(edu.institution) \o <<"</b>">>,
                           self.styles["Company"]),
                 Paragraph(EducationDateRange(edu), self.styles["Date"])>>,
               <<Paragraph(OrEmpty(edu.degree), self.styles["Position"]),
                 Paragraph(<<>>, self.styles["Date"])>> >>
            \o (IF Truthy(edu.field_of_study)
                THEN << <<Paragraph(<<"Field: ">> \o edu.field_of_study,
                                    self.styles["CustomBodyText"]),
                          Paragraph(<<>>, self.styles["Date"])>> >>
                ELSE <<>>)
    IN  <<Table(edu_data)>>
        \o (IF Truthy(edu.description)
            THEN <<Paragraph(edu.description, self.styles["CustomBodyText"])>>
            ELSE <<>>)
        \o <<Spacer(1)>>

RECURSIVE EducationLoop(_, _)
EducationLoop(self, rows) ==
    IF rows = <<>> THEN <<>>
    ELSE EducationEntryBlocks(self, Head(rows)) \o EducationLoop(self, Tail(rows))

\* # Education
EducationBlocks(self, r, nl) ==
    IF Exists(r.educations)
    THEN SectionHeader(self, "EDUCATION")
         \o EducationLoop(self, OrderByStartDateDesc(r.educations, nl))
    ELSE <<>>

\* footer_text
FooterText(current_time) == <<"Generated on ">> \o StrftimeFooter(current_time)

\* the footer with the timestamp line above the rule
FooterBlocksStampFirst(self, current_time) ==
    <<Paragraph(FooterText(current_time), self.styles["ContactInfo"]),
      HRFlowable(1, self.secondary_color, 4, 12)>>

\* # Add footer with generation info
FooterBlocks(self, current_time) ==
    <<HRFlowable(1, self.secondary_color, 4, 12),
      Paragraph(FooterText(current_time), self.styles["ContactInfo"])>>

\* what a call that raised hands back: nothing
NoBuffer == [none |-> TRUE]

\* blocks, each with the section of generate_resume_pdf that appends it
Tagged(blocks, sec) == [i \in 1..Len(blocks) |-> [block |-> blocks[i], sec |-> sec]]

\* the sections with # Skills run before # Professional Experience
UpToProjectsSkillsFirst(header, summary, experience, skills, projects) ==
    header \o summary \o skills \o experience \o projects

\* the order in which generate_resume_pdf runs its sections up to # Projects
UpToProjects(header, summary, experience, skills, projects) ==
    header \o summary \o experience \o skills \o projects

\* the footer appended before # Education
AfterProjectsFooterFirst(education, footer) == footer \o education

\* ... and after it
AfterProjects(education, footer) == education \o footer

\* generate_resume_pdf(resume) on instance self, reading the clock as
\* current_time: how the call ended, the story it built (up to the raise, when
\* it raised), the section of the code that appended each block, and the
\* buffer it returned
GenerateResumePdf(self, r, nl, current_time) ==
    LET projects == ProjectsBlocks(self, r)
        upto == UpToProjects(Tagged(HeaderBlocks(self, r), "header"),
                             Tagged(SummaryBlocks(self, r), "summary"),
                             Tagged(ExperienceBlocks(self, r, nl), "experience"),
                             Tagged(SkillsBlocks(self, r), "skills"),
                             Tagged(projects.blocks, "projects"))
        all == upto \o AfterProjects(Tagged(EducationBlocks(self, r, nl), "education"),
                                     Tagged(FooterBlocks(self, current_time), "footer"))
        raised == HeaderRaises(r) \/ projects.raised
        built == IF HeaderRaises(r) THEN Tagged(<<Spacer(1)>>, "header")
                 ELSE IF projects.raised THEN upto ELSE all
        story == [i \in 1..Len(built) |-> built[i].block]
    IN  [status |-> IF raised THEN "raised" ELSE "returned",
         story |-> story,
         secs |-> [i \in 1..Len(built) |-> built[i].sec],
         buffer |-> IF raised THEN NoBuffer ELSE [pos |-> 0, document |-> story]]

-----------------------------------------------------------------------------
(* Inputs *)

\* all str of length at most n over the characters of alphabet
StrUpTo(alphabet, n) == UNION {[1..k -> alphabet] : k \in 0..n}

\* all lists of length at most n of elements of S
ListsUpTo(S, n) == UNION {[1..k -> S] : k \in 0..n}

NameJo == <<"J","o">>
NameAb == <<"a"," ","b">>
EmailText == <<"j","@","x">>
PhoneText == <<"5","5","5">>
LocationText == <<"O","s","l","o">>
UrlText == <<"h",":","/","/","u">>
CompanyText == <<"A","c","m","e">>
PositionText == <<"D","e","v">>
InstitutionText == <<"M","I","T">>
DegreeText == <<"B","S","c">>
FieldText == <<"C","S">>
SkillGo == <<"G","o">>
SkillSql == <<"S","Q","L">>
LevelExpert == <<"e","x","p","e","r","t">>
LevelBeginner == <<"b","e","g","i","n","n","e","r">>
LevelGuru == <<"g","u","r","u">>

Date2019 == [y |-> 2019, m |-> 9, d |-> 1]
Date2020 == [y |-> 2020, m |-> 1, d |-> 15]

\* the times the clock may show when a call reads it
Instants ==
    {[y |-> 2025, m |-> 3, d |-> 7, h |-> 9, mi |-> 5],
     [y |-> 2025, m |-> 11, d |-> 21, h |-> 12, mi |-> 40]}

Generators == {1, 2}

NoGenerator == [none |-> TRUE]

NoCall == [none |-> TRUE]

\* a Resume row with nothing but a name
BareResume(name) ==
    [name |-> name, email |-> <<>>, phone |-> <<>>, location |-> <<>>,
     summary |-> <<>>, linkedin_url |-> NoneText, github_url |-> NoneText,
     portfolio_url |-> NoneText,
     experiences |-> <<>>, skills |-> <<>>, resume_projects |-> <<>>,
     educations |-> <<>>]

ExperienceRows ==
    {[company |-> CompanyText, position |-> PositionText, start_date |-> sd,
      end_date |-> ed, current |-> c, description |-> <<>>] :
        sd \in {Date2019, Date2020}, ed \in {NoneDate, Date2020}, c \in BOOLEAN}
    \cup {[company |-> CompanyText, position |-> PositionText,
           start_date |-> NoneDate, end_date |-> NoneDate, current |-> FALSE,
           description |-> <<>>]}

EducationRows ==
    {[institution |-> InstitutionText, degree |-> DegreeText,
      field_of_study |-> <<>>, start_date |-> sd, end_date |-> ed,
      current |-> c, description |-> <<>>] :
        sd \in {Date2019, Date2020}, ed \in {NoneDate, Date2020}, c \in BOOLEAN}
    \cup {[institution |-> InstitutionText, degree |-> DegreeText,
           field_of_study |-> <<>>, start_date |-> NoneDate,
           end_date |-> NoneDate, current |-> FALSE, description |-> <<>>]}

SkillRows ==
    {[name |-> n, level |-> l] :
        n \in {<<>>, SkillGo, SkillSql},
        l \in {LevelExpert, LevelBeginner, LevelGuru}}
    \cup {[name |-> NoneText, level |-> LevelExpert],
          [name |-> SkillGo, level |-> NoneText]}

SampleProject ==
    [name |-> <<"P">>, description |-> <<"d">>,
     technologies |-> <<SkillGo, SkillSql>>, project_url |-> UrlText,
     github_url |-> NoneText]

BareProject ==
    [name |-> <<"Q">>, description |-> <<>>, technologies |-> <<>>,
     project_url |-> NoneText, github_url |-> NoneText]

SampleExperience ==
    [company |-> CompanyText, position |-> PositionText, start_date |-> Date2020,
     end_date |-> NoneDate, current |-> TRUE,
     description |-> <<"a","\n"," ","\n","b"," ">>]

SampleEducation ==
    [institution |-> InstitutionText, degree |-> DegreeText,
     field_of_study |-> FieldText, start_date |-> Date2019,
     end_date |-> Date2020, current |-> FALSE, description |-> <<"d">>]

\* resumes with every field and every collection both empty and filled
GeneralResumes ==
    {[name |-> n, email |-> c[1], phone |-> c[2], location |-> c[3],
      summary |-> su, linkedin_url |-> u[1], github_url |-> u[2],
      portfolio_url |-> u[3],
      experiences |-> ex, skills |-> sk, resume_projects |-> pr,
      educations |-> ed] :
        n \in {NameJo, NameAb},
        c \in {<<(<<>>), (<<>>), (<<>>)>>, <<EmailText, (<<>>), (<<>>)>>,
               <<EmailText, PhoneText, LocationText>>},
        u \in {<<NoneText, NoneText, NoneText>>, <<NoneText, UrlText, (<<>>)>>,
               <<UrlText, UrlText, UrlText>>},
        su \in {NoneText, <<>>, <<" ","\n">>, <<"a"," "," ","b">>},
        ex \in {<<>>, <<SampleExperience>>},
        sk \in {<<>>, <<[name |-> SkillGo, level |-> LevelExpert],
                       [name |-> SkillSql, level |-> LevelGuru]>>},
        pr \in {<<>>, <<SampleProject>>, <<BareProject, SampleProject>>},
        ed \in {<<>>, <<SampleEducation>>}}

SummaryAlphabet == {"a", "b", " ", "\n", "\t"}

SummaryResumes ==
    {[BareResume(NameJo) EXCEPT !.summary = su] :
        su \in StrUpTo(SummaryAlphabet, MaxSummaryLen) \cup {NoneText}}

SkillResumes ==
    {[BareResume(NameJo) EXCEPT !.skills = sk] : sk \in ListsUpTo(SkillRows, MaxSkills)}

EntryResumes ==
    {[BareResume(NameJo) EXCEPT !.experiences = ex] :
        ex \in ListsUpTo(ExperienceRows, MaxExperiences)}
    \cup {[BareResume(NameJo) EXCEPT !.educations = ed] :
        ed \in ListsUpTo(EducationRows, MaxEducations)}

\* resumes with and without a name
NameResumes ==
    {[BareResume(n) EXCEPT !.email = e, !.summary = su] :
        n \in {NoneText, <<>>, NameJo, NameAb},
        e \in {<<>>, EmailText},
        su \in {<<>>, <<"a">>}}

DescriptionAlphabet == {"a", "b", " ", "\n"}

\* resumes with one experience, with every description up to the bound
BulletResumes ==
    {[BareResume(NameJo) EXCEPT
        !.experiences = <<[SampleExperience EXCEPT !.description = de]>>] :
        de \in StrUpTo(DescriptionAlphabet, MaxDescriptionLen)}

\* the rows the database can hold: start_date is NOT NULL in every table
HasStartDate(row) == row.start_date # NoneDate

DatedResumes ==
    {r \in EntryResumes :
        /\ \A k \in 1..Len(r.experiences) : HasStartDate(r.experiences[k])
        /\ \A k \in 1..Len(r.educations) : HasStartDate(r.educations[k])}

-----------------------------------------------------------------------------
(* The tables and the requests of the API *)

ResumeIds == {1, 2}

RowIds == {1}

ProjectIds == {1}

Renders == {1, 2}

NoRow == [none |-> TRUE]

\* an empty FileField / ImageField
NoFile == [none |-> TRUE]

NoRequest == [none |-> TRUE]

NoRender == [none |-> TRUE]

\* the objects regenerations allocate: a generator, a story list and a buffer
\* for each
Refs == 1..(3 * Cardinality(Renders))

\* no regeneration started, no object allocated
NoRenders ==
    [threads |-> [p \in Renders |-> NoRender],
     objects |-> [a \in Refs |-> NoRender]]

-----------------------------------------------------------------------------
(* State machine *)

\* no row in any table, no request made, no regeneration in flight
ApiIdle ==
    /\ resumes = [id \in ResumeIds |-> NoRow]
    /\ related = [id \in RowIds |-> NoRow]
    /\ portfolio = [id \in ProjectIds |-> NoRow]
    /\ request = NoRequest
    /\ renders = NoRenders

InitWith(rows, backends) ==
    /\ resume \in rows
    /\ nulls_largest \in backends
    /\ gens = [g \in Generators |-> NoGenerator]
    /\ last = NoCall
    /\ prev = NoCall
    /\ ApiIdle

\* no start_date is NULL in these: where the database sorts NULL is not read
Init == InitWith(GeneralResumes, {FALSE})

InitSummary == InitWith(SummaryResumes, {FALSE})

InitSkills == InitWith(SkillResumes, {FALSE})

InitEntries == InitWith(EntryResumes, BOOLEAN)

InitDated == InitWith(DatedResumes, {FALSE})

InitBullets == InitWith(BulletResumes, {FALSE})

InitNames == InitWith(NameResumes, {FALSE})

\* pdf_generator = ResumePDFGenerator()
Construct(g) ==
    /\ gens[g] = NoGenerator
    /\ \A h \in Generators : h < g => gens[h] # NoGenerator
    /\ gens' = [gens EXCEPT ![g] = NewGenerator]
    /\ UNCHANGED <<resume, nulls_largest, last, prev>>
    /\ UNCHANGED <<resumes, related, portfolio, request, renders>>

\* pdf_generator.generate_resume_pdf(resume), with timezone.now() = t
Generate(g, t) ==
    /\ gens[g] # NoGenerator
    /\ last' = [gen |-> g, time |-> t,
                result |-> GenerateResumePdf(gens[g], resume, nulls_largest, t)]
    /\ prev' = last
    /\ UNCHANGED <<resume, nulls_largest, gens>>
    /\ UNCHANGED <<resumes, related, portfolio, request, renders>>

Next ==
    \/ \E g \in Generators : Construct(g)
    \/ \E g \in Generators, t \in Instants : Generate(g, t)

Spec == Init /\ [][Next]_vars

SpecSummary == InitSummary /\ [][Next]_vars

SpecSkills == InitSkills /\ [][Next]_vars

SpecEntries == InitEntries /\ [][Next]_vars

SpecDated == InitDated /\ [][Next]_vars

SpecBullets == InitBullets /\ [][Next]_vars

SpecNames == InitNames /\ [][Next]_vars

-----------------------------------------------------------------------------
(* portfolio/views.py: what the handlers share *)

\* the name create and update write: one with a space in it
ResumeNames == {NameAb}

\* the time the clock shows when a handler's render reads it
ViewInstants == {t \in Instants : t.m = 3}

Kinds == {"experiences", "educations", "skills", "resume_projects"}

\* the two contents a related row is given by create and update
RowContent(row) ==
    CASE row.kind = "experiences" ->
            [SampleExperience EXCEPT !.current = (row.rev = 1)]
      [] row.kind = "educations" ->
            [SampleEducation EXCEPT !.current = (row.rev = 1)]
      [] row.kind = "skills" ->
            [name |-> SkillGo,
             level |-> IF row.rev = 1 THEN LevelExpert ELSE LevelBeginner]
      [] row.kind = "resume_projects" ->
            IF row.rev = 1 THEN SampleProject ELSE BareProject

RECURSIVE IdsInOrder(_)
IdsInOrder(S) ==
    IF S = {} THEN <<>>
    ELSE LET m == CHOOSE x \in S : \A y \in S : x <= y
         IN  <<m>> \o IdsInOrder(S \ {m})

\* resume.<kind>.all(): the rows of the resume, as the database yields them
RelatedRows(rel, id, kind) ==
    LET ids == IdsInOrder({r \in RowIds :
                    rel[r] # NoRow /\ rel[r].kind = kind /\ rel[r].resume = id})
    IN  [k \in 1..Len(ids) |-> RowContent(rel[ids[k]])]

\* the Resume instance a handler holds, with the relations the renderer
\* reaches through it
ResumeInstance(rs, rel, id) ==
    [BareResume(rs[id].name) EXCEPT
        !.experiences = RelatedRows(rel, id, "experiences"),
        !.educations = RelatedRows(rel, id, "educations"),
        !.skills = RelatedRows(rel, id, "skills"),
        !.resume_projects = RelatedRows(rel, id, "resume_projects")]

\* name.replace(' ', '_')
ReplaceSpaces(name) ==
    [i \in 1..Len(name) |-> IF name[i] = " " THEN "_" ELSE name[i]]

\* f"resumes/resume_{resume.id}_{resume.name.replace(' ', '_')}"
PublicId(id, name) == <<"resumes/resume_", Digit[id + 1], "_">> \o ReplaceSpaces(name)

\* how the calls to Cloudinary and to the database end in one regeneration
IoOutcomes == {"ok", "upload raises", "save raises"}

\* the try block with the upload and the save made whether or not the render
\* raised
TryBlockUploadsAnyway(render, rs, id, io) ==
    [resumes |-> [rs EXCEPT ![id].pdf_file = [public_id |-> PublicId(id, rs[id].name)]],
     returned |-> [public_id |-> PublicId(id, rs[id].name)],
     steps |-> <<[op |-> "construct"],
                 [op |-> "render", resume |-> id, status |-> render.status,
                  buffer |-> render.buffer],
                 [op |-> "upload", public_id |-> PublicId(id, rs[id].name),
                  file |-> render.buffer, status |-> "returned"],
                 [op |-> "resume.save", resume |-> id, status |-> "returned"]>>]

\* the try block of regenerate_resume_pdf and regenerate_related_resume_pdf on
\* the resume with this id, given how its call of generate_resume_pdf ended:
\* the rows of Resume it leaves, what it returns (NoFile for None) and the
\* calls it made, in order.  An exception of any call ends the block in its
\* except clause.
TryBlock(render, rs, id, io) ==
    LET public_id == PublicId(id, rs[id].name)
        rendered == <<[op |-> "construct"],
                      [op |-> "render", resume |-> id, status |-> render.status,
                       buffer |-> render.buffer]>>
        upload(status) == [op |-> "upload", public_id |-> public_id,
                           file |-> render.buffer, status |-> status]
        save(status) == [op |-> "resume.save", resume |-> id, status |-> status]
    IN  IF render.status = "raised"
        THEN [resumes |-> rs, returned |-> NoFile, steps |-> rendered]
        ELSE IF io = "upload raises"
        THEN [resumes |-> rs, returned |-> NoFile,
              steps |-> rendered \o <<upload("raised")>>]
        ELSE IF io = "save raises"
        THEN [resumes |-> rs, returned |-> NoFile,
              steps |-> rendered \o <<upload("returned"), save("raised")>>]
        ELSE [resumes |-> [rs EXCEPT ![id].pdf_file = [public_id |-> public_id]],
              returned |-> [public_id |-> public_id],
              steps |-> rendered \o <<upload("returned"), save("returned")>>]

\* regenerate_resume_pdf(resume) over the tables rs and rel, at time t
Regenerate(rs, rel, id, t, io) ==
    TryBlock(GenerateResumePdf(NewGenerator, ResumeInstance(rs, rel, id), FALSE, t),
             rs, id, io)

\* the request a handler has answered
Answer(viewset, action, authenticated, pk, status, body, steps) ==
    [viewset |-> viewset, action |-> action, authenticated |-> authenticated,
     pk |-> pk, status |-> status, body |-> body, steps |-> steps]

\* what a handler leaves once the regeneration it called has ended: the rows
\* of Resume, and its answer with the calls made before the regeneration and
\* those the regeneration made
Regenerated(regen, viewset, action, authenticated, pk, status, body, before) ==
    /\ resumes' = regen.resumes
    /\ request' = Answer(viewset, action, authenticated, pk, status, body,
                         before \o regen.steps)

\* the ids no row of table has
Free(table) == {id \in DOMAIN table : table[id] = NoRow}

\* the id a new row gets
NewId(table) == CHOOSE id \in Free(table) : \A other \in Free(table) : id <= other

-----------------------------------------------------------------------------
(* ResumeViewSet *)

\* get_permissions, with the caller's request.user.is_authenticated
ResumePermitted(action, authenticated) ==
    action \in {"create", "update", "partial_update", "destroy"} => authenticated

\* get_object over queryset = Resume.objects.filter(is_active=True)
ResumeFound(pk) == resumes[pk] # NoRow /\ resumes[pk].is_active

\* a request that ends with no table written
NoWrite(viewset, action, authenticated, pk, status, body) ==
    /\ request' = Answer(viewset, action, authenticated, pk, status, body, <<>>)
    /\ UNCHANGED dbvars

\* what no handler of the API writes
ApiStep == UNCHANGED rvars /\ UNCHANGED renders

\* POST resumes/: create and perform_create
ResumeCreate(authenticated, name, t, io) ==
    /\ ApiStep
    /\ IF ~ResumePermitted("create", authenticated)
       THEN NoWrite("resumes", "create", authenticated, 0, 401, "")
       ELSE /\ Free(resumes) # {}
            /\ LET id == NewId(resumes)
                   saved == [resumes EXCEPT ![id] =
                                [name |-> name, is_active |-> TRUE, pdf_file |-> NoFile]]
               IN  Regenerated(Regenerate(saved, related, id, t, io),
                               "resumes", "create", authenticated, id, 201, "",
                               <<[op |-> "serializer.save", resume |-> id]>>)
            /\ UNCHANGED <<related, portfolio>>

\* PUT / PATCH resumes/<pk>/: update and perform_update
ResumeUpdate(authenticated, pk, name, t, io) ==
    /\ ApiStep
    /\ IF ~ResumePermitted("update", authenticated)
       THEN NoWrite("resumes", "update", authenticated, pk, 401, "")
       ELSE IF ~ResumeFound(pk)
       THEN NoWrite("resumes", "update", authenticated, pk, 404, "")
       ELSE /\ LET saved == [resumes EXCEPT ![pk].name = name]
               IN  Regenerated(Regenerate(saved, related, pk, t, io),
                               "resumes", "update", authenticated, pk, 200, "",
                               <<[op |-> "serializer.save", resume |-> pk]>>)
            /\ UNCHANGED <<related, portfolio>>

\* DELETE resumes/<pk>/: destroy; the related rows go with the resume
\* (on_delete=CASCADE)
ResumeDestroy(authenticated, pk) ==
    /\ ApiStep
    /\ IF ~ResumePermitted("destroy", authenticated)
       THEN NoWrite("resumes", "destroy", authenticated, pk, 401, "")
       ELSE IF ~ResumeFound(pk)
       THEN NoWrite("resumes", "destroy", authenticated, pk, 404, "")
       ELSE /\ resumes' = [resumes EXCEPT ![pk] = NoRow]
            /\ related' = [r \in RowIds |->
                              IF related[r] # NoRow /\ related[r].resume = pk
                              THEN NoRow ELSE related[r]]
            /\ request' = Answer("resumes", "destroy", authenticated, pk, 204, "",
                                 <<[op |-> "instance.delete", resume |-> pk]>>)
            /\ UNCHANGED portfolio

\* GET resumes/<pk>/: retrieve
ResumeRetrieve(authenticated, pk) ==
    /\ ApiStep
    /\ IF ~ResumeFound(pk)
       THEN NoWrite("resumes", "retrieve", authenticated, pk, 404, "")
       ELSE NoWrite("resumes", "retrieve", authenticated, pk, 200, "resume")

\* the names download_pdf can read: its parameters and locals, and what
\* views.py binds at module level
DownloadPdfNames ==
    {"self", "request", "pk", "resume", "cloud_name", "public_id", "pdf_url",
     "requests", "test_response", "e",
     "send_mail", "settings", "render_to_string", "strip_tags", "HttpResponse",
     "FileResponse", "ContentFile", "viewsets", "status", "filters", "action",
     "Response", "AllowAny", "IsAuthenticated", "DjangoFilterBackend", "Q",
     "cloudinary", "BytesIO", "Resume", "Experience", "Education", "Skill",
     "ResumeProject", "PortfolioProject", "ResumeSerializer",
     "ResumeCreateSerializer", "ExperienceSerializer", "EducationSerializer",
     "SkillSerializer", "ResumeProjectSerializer", "PortfolioProjectSerializer",
     "PortfolioProjectCreateSerializer", "PortfolioProjectUpdateSerializer",
     "ResumePDFGenerator", "redirect", "api_root_view", "ResumeViewSet",
     "BaseResumeRelatedViewSet", "ExperienceViewSet", "EducationViewSet",
     "SkillViewSet", "ResumeProjectViewSet", "PortfolioProjectViewSet"}

\* how the try block of download_pdf ends: requests.head answers 200, answers
\* another status, or a call in the block raises
HeadOutcomes == {"200", "not 200", "raises"}

\* GET resumes/<pk>/download_pdf/: the read of needs_regeneration is outside
\* every try, so a NameError there leaves the handler unhandled; past it (the
\* name taken as falsy) come the handler's own responses
DownloadPdf(authenticated, pk, head) ==
    /\ ApiStep
    /\ IF ~ResumeFound(pk)
       THEN NoWrite("resumes", "download_pdf", authenticated, pk, 404, "")
       ELSE IF "needs_regeneration" \notin DownloadPdfNames
       THEN NoWrite("resumes", "download_pdf", authenticated, pk, 500,
                    "unhandled NameError: needs_regeneration")
       ELSE IF resumes[pk].pdf_file = NoFile
       THEN NoWrite("resumes", "download_pdf", authenticated, pk, 404,
                    "PDF not available")
       ELSE IF head = "200"
       THEN NoWrite("resumes", "download_pdf", authenticated, pk, 200,
                    "PDF is accessible")
       ELSE IF head = "not 200"
       THEN NoWrite("resumes", "download_pdf", authenticated, pk, 500,
                    "PDF not publicly accessible")
       ELSE NoWrite("resumes", "download_pdf", authenticated, pk, 500,
                    "URL generation failed")

\* GET resumes/<pk>/pdf_url/
PdfUrl(authenticated, pk) ==
    /\ ApiStep
    /\ IF ~ResumeFound(pk)
       THEN NoWrite("resumes", "pdf_url", authenticated, pk, 404, "")
       ELSE IF resumes[pk].pdf_file # NoFile
       THEN NoWrite("resumes", "pdf_url", authenticated, pk, 200, "pdf_url")
       ELSE NoWrite("resumes", "pdf_url", authenticated, pk, 404, "PDF not available")

\* POST resumes/<pk>/generate_pdf/: regenerate_resume_pdf catches every
\* exception itself, so the except clause of generate_pdf is never entered
GeneratePdf(authenticated, pk, t, io) ==
    /\ ApiStep
    /\ IF ~ResumePermitted("generate_pdf", authenticated)
       THEN NoWrite("resumes", "generate_pdf", authenticated, pk, 401, "")
       ELSE IF ~ResumeFound(pk)
       THEN NoWrite("resumes", "generate_pdf", authenticated, pk, 404, "")
       ELSE /\ Regenerated(Regenerate(resumes, related, pk, t, io),
                           "resumes", "generate_pdf", authenticated, pk, 200,
                           "PDF generated successfully!", <<>>)
            /\ UNCHANGED <<related, portfolio>>

\* GET resumes/active/
Active(authenticated) ==
    /\ ApiStep
    /\ IF \E id \in ResumeIds : resumes[id] # NoRow /\ resumes[id].is_active
       THEN NoWrite("resumes", "active", authenticated, 0, 200, "resume")
       ELSE NoWrite("resumes", "active", authenticated, 0, 404,
                    "No active resume found")

\* POST resumes/<pk>/set_active/
SetActive(authenticated, pk) ==
    /\ ApiStep
    /\ IF ~authenticated
       THEN NoWrite("resumes", "set_active", authenticated, pk, 401,
                    "Authentication required")
       ELSE IF ~ResumeFound(pk)
       THEN NoWrite("resumes", "set_active", authenticated, pk, 404, "")
       ELSE /\ resumes' = [id \in ResumeIds |->
                              IF resumes[id] = NoRow THEN NoRow
                              ELSE [resumes[id] EXCEPT !.is_active = (id = pk)]]
            /\ request' = Answer("resumes", "set_active", authenticated, pk, 200,
                                 "set as active successfully!",
                                 <<[op |-> "update is_active=False"],
                                   [op |-> "resume.save", resume |-> pk,
                                    status |-> "returned"]>>)
            /\ UNCHANGED <<related, portfolio>>

\* DELETE resumes/<pk>/delete_pdf/, with how cloudinary.uploader.destroy ends
DeletePdf(authenticated, pk, destroy_ok) ==
    /\ ApiStep
    /\ IF ~ResumePermitted("delete_pdf", authenticated)
       THEN NoWrite("resumes", "delete_pdf", authenticated, pk, 401, "")
       ELSE IF ~ResumeFound(pk)
       THEN NoWrite("resumes", "delete_pdf", authenticated, pk, 404, "")
       ELSE IF resumes[pk].pdf_file = NoFile
       THEN NoWrite("resumes", "delete_pdf", authenticated, pk, 200, "No PDF to delete")
       ELSE IF ~destroy_ok
       THEN NoWrite("resumes", "delete_pdf", authenticated, pk, 500,
                    "Failed to delete PDF")
       ELSE /\ resumes' = [resumes EXCEPT ![pk].pdf_file = NoFile]
            /\ request' = Answer("resumes", "delete_pdf", authenticated, pk, 200,
                                 "PDF deleted successfully!",
                                 <<[op |-> "destroy",
                                    public_id |-> resumes[pk].pdf_file.public_id],
                                   [op |-> "resume.save", resume |-> pk,
                                    status |-> "returned"]>>)
            /\ UNCHANGED <<related, portfolio>>

-----------------------------------------------------------------------------
(* ExperienceViewSet, EducationViewSet, SkillViewSet, ResumeProjectViewSet:
   four classes with the same three methods over BaseResumeRelatedViewSet *)

\* permission_classes = [IsAuthenticated]
RelatedPermitted(authenticated) == authenticated

\* POST <kind>/: perform_create, for a row of resume fk
RelatedCreate(authenticated, kind, fk, t, io) ==
    /\ ApiStep
    /\ IF ~RelatedPermitted(authenticated)
       THEN NoWrite(kind, "create", authenticated, 0, 401, "")
       ELSE IF resumes[fk] = NoRow
       THEN NoWrite(kind, "create", authenticated, 0, 400, "resume: invalid pk")
       ELSE /\ Free(related) # {}
            /\ LET id == NewId(related)
                   saved == [related EXCEPT ![id] =
                                [kind |-> kind, resume |-> fk, rev |-> 0]]
               IN  /\ related' = saved
                   /\ Regenerated(Regenerate(resumes, saved, fk, t, io),
                                  kind, "create", authenticated, id, 201, "",
                                  <<[op |-> "serializer.save", row |-> id, resume |-> fk]>>)
            /\ UNCHANGED portfolio

\* get_object over queryset = <Model>.objects.all() of the viewset of kind
RelatedFound(kind, pk) == related[pk] # NoRow /\ related[pk].kind = kind

\* PUT / PATCH <kind>/<pk>/: perform_update, with the row's new resume and
\* content
RelatedUpdate(authenticated, kind, pk, fk, rev, t, io) ==
    /\ ApiStep
    /\ IF ~RelatedPermitted(authenticated)
       THEN NoWrite(kind, "update", authenticated, pk, 401, "")
       ELSE IF ~RelatedFound(kind, pk)
       THEN NoWrite(kind, "update", authenticated, pk, 404, "")
       ELSE IF resumes[fk] = NoRow
       THEN NoWrite(kind, "update", authenticated, pk, 400, "resume: invalid pk")
       ELSE /\ LET saved == [related EXCEPT ![pk].resume = fk, ![pk].rev = rev]
               IN  /\ related' = saved
                   /\ Regenerated(Regenerate(resumes, saved, fk, t, io),
                                  kind, "update", authenticated, pk, 200, "",
                                  <<[op |-> "serializer.save", row |-> pk, resume |-> fk]>>)
            /\ UNCHANGED portfolio

\* perform_destroy with the PDF regenerated before the row is deleted
RelatedDestroyRegeneratesFirst(authenticated, kind, pk, t, io) ==
    /\ ApiStep
    /\ IF ~RelatedPermitted(authenticated)
       THEN NoWrite(kind, "destroy", authenticated, pk, 401, "")
       ELSE IF ~RelatedFound(kind, pk)
       THEN NoWrite(kind, "destroy", authenticated, pk, 404, "")
       ELSE /\ LET owner == related[pk].resume
                   regen == Regenerate(resumes, related, owner, t, io)
               IN  /\ related' = [related EXCEPT ![pk] = NoRow]
                   /\ resumes' = regen.resumes
                   /\ request' = Answer(kind, "destroy", authenticated, pk, 204, "",
                                    regen.steps
                                    \o <<[op |-> "instance.delete", row |-> pk,
                                          resume |-> owner]>>)
            /\ UNCHANGED portfolio

\* DELETE <kind>/<pk>/: perform_destroy
RelatedDestroy(authenticated, kind, pk, t, io) ==
    /\ ApiStep
    /\ IF ~RelatedPermitted(authenticated)
       THEN NoWrite(kind, "destroy", authenticated, pk, 401, "")
       ELSE IF ~RelatedFound(kind, pk)
       THEN NoWrite(kind, "destroy", authenticated, pk, 404, "")
       ELSE /\ LET owner == related[pk].resume
                   deleted == [related EXCEPT ![pk] = NoRow]
               IN  /\ related' = deleted
                   /\ Regenerated(Regenerate(resumes, deleted, owner, t, io),
                                  kind, "destroy", authenticated, pk, 204, "",
                                  <<[op |-> "instance.delete", row |-> pk,
                                     resume |-> owner]>>)
            /\ UNCHANGED portfolio

-----------------------------------------------------------------------------
(* PortfolioProjectViewSet *)

PortfolioPermitted(action, authenticated) ==
    action \in {"create", "update", "partial_update", "destroy"} => authenticated

PortfolioProjectFields ==
    {"id", "title", "description", "short_description", "image", "technologies",
     "live_link", "github_link", "featured", "completed_date", "created_at",
     "updated_at"}

\* Meta.fields of the three PortfolioProject serializers
PortfolioSerializerFields ==
    {"title", "description", "short_description", "image", "technologies",
     "live_link", "github_client", "github_server", "featured", "completed_date"}

\* a ModelSerializer builds its fields from Meta.fields and raises
\* ImproperlyConfigured for a name that is no field of the model
SerializerBuilds == PortfolioSerializerFields \subseteq PortfolioProjectFields

PortfolioFound(pk) == portfolio[pk] # NoRow

\* POST portfolio-projects/
PortfolioCreate(authenticated) ==
    /\ ApiStep
    /\ IF ~PortfolioPermitted("create", authenticated)
       THEN NoWrite("portfolio-projects", "create", authenticated, 0, 401, "")
       ELSE IF ~SerializerBuilds
       THEN NoWrite("portfolio-projects", "create", authenticated, 0, 500,
                    "ImproperlyConfigured")
       ELSE /\ Free(portfolio) # {}
            /\ portfolio' = [portfolio EXCEPT ![NewId(portfolio)] =
                                [featured |-> FALSE, technologies |-> <<>>,
                                 image |-> [public_id |-> "projects/image"]]]
            /\ request' = Answer("portfolio-projects", "create", authenticated,
                                 NewId(portfolio), 201, "Project created successfully!",
                                 <<[op |-> "serializer.save"]>>)
            /\ UNCHANGED <<resumes, related>>

\* PUT / PATCH portfolio-projects/<pk>/
PortfolioUpdate(authenticated, pk, featured) ==
    /\ ApiStep
    /\ IF ~PortfolioPermitted("update", authenticated)
       THEN NoWrite("portfolio-projects", "update", authenticated, pk, 401, "")
       ELSE IF ~PortfolioFound(pk)
       THEN NoWrite("portfolio-projects", "update", authenticated, pk, 404, "")
       ELSE IF ~SerializerBuilds
       THEN NoWrite("portfolio-projects", "update", authenticated, pk, 500,
                    "ImproperlyConfigured")
       ELSE /\ portfolio' = [portfolio EXCEPT ![pk].featured = featured]
            /\ request' = Answer("portfolio-projects", "update", authenticated, pk, 200,
                                 "Project updated successfully!",
                                 <<[op |-> "serializer.save"]>>)
            /\ UNCHANGED <<resumes, related>>

\* GET portfolio-projects/<pk>/
PortfolioRetrieve(authenticated, pk) ==
    /\ ApiStep
    /\ IF ~PortfolioFound(pk)
       THEN NoWrite("portfolio-projects", "retrieve", authenticated, pk, 404, "")
       ELSE IF ~SerializerBuilds
       THEN NoWrite("portfolio-projects", "retrieve", authenticated, pk, 500,
                    "ImproperlyConfigured")
       ELSE NoWrite("portfolio-projects", "retrieve", authenticated, pk, 200, "project")

\* DELETE portfolio-projects/<pk>/: an error of cloudinary.uploader.destroy
\* is printed and the row deleted all the same
PortfolioDestroy(authenticated, pk, destroy_ok) ==
    /\ ApiStep
    /\ IF ~PortfolioPermitted("destroy", authenticated)
       THEN NoWrite("portfolio-projects", "destroy", authenticated, pk, 401, "")
       ELSE IF ~PortfolioFound(pk)
       THEN NoWrite("portfolio-projects", "destroy", authenticated, pk, 404, "")
       ELSE /\ portfolio' = [portfolio EXCEPT ![pk] = NoRow]
            /\ request' = Answer("portfolio-projects", "destroy", authenticated, pk, 200,
                                 "deleted successfully!",
                                 (IF portfolio[pk].image # NoFile
                                  THEN <<[op |-> "destroy",
                                          status |-> IF destroy_ok THEN "returned"
                                                     ELSE "raised"]>>
                                  ELSE <<>>)
                                 \o <<[op |-> "instance.delete"]>>)
            /\ UNCHANGED <<resumes, related>>

\* POST portfolio-projects/<pk>/toggle_featured/
ToggleFeatured(authenticated, pk) ==
    /\ ApiStep
    /\ IF ~PortfolioPermitted("toggle_featured", authenticated)
       THEN NoWrite("portfolio-projects", "toggle_featured", authenticated, pk, 401, "")
       ELSE IF ~PortfolioFound(pk)
       THEN NoWrite("portfolio-projects", "toggle_featured", authenticated, pk, 404, "")
       ELSE /\ portfolio' = [portfolio EXCEPT ![pk].featured = ~portfolio[pk].featured]
            /\ request' = Answer("portfolio-projects", "toggle_featured", authenticated,
                                 pk, 200,
                                 IF portfolio[pk].featured THEN "unfeatured successfully!"
                                 ELSE "featured successfully!",
                                 <<[op |-> "project.save"]>>)
            /\ UNCHANGED <<resumes, related>>

\* x in list
InList(x, list) == \E i \in 1..Len(list) : list[i] = x

\* list.remove(x): list without the first x in it
ListRemove(list, x) ==
    LET i == CHOOSE k \in 1..Len(list) : list[k] = x /\ \A j \in 1..(k - 1) : list[j] # x
    IN  SubSeq(list, 1, i - 1) \o SubSeq(list, i + 1, Len(list))

\* POST portfolio-projects/<pk>/add_technology/, with
\* request.data.get('technology', '')
AddTechnology(authenticated, pk, raw) ==
    /\ ApiStep
    /\ LET technology == StrStrip(raw)
       IN  IF ~PortfolioPermitted("add_technology", authenticated)
           THEN NoWrite("portfolio-projects", "add_technology", authenticated, pk, 401, "")
           ELSE IF ~PortfolioFound(pk)
           THEN NoWrite("portfolio-projects", "add_technology", authenticated, pk, 404, "")
           ELSE IF ~Truthy(technology)
           THEN NoWrite("portfolio-projects", "add_technology", authenticated, pk, 400,
                        "Technology field is required")
           ELSE IF InList(technology, portfolio[pk].technologies)
           THEN NoWrite("portfolio-projects", "add_technology", authenticated, pk, 200,
                        "added successfully!")
           ELSE /\ portfolio' = [portfolio EXCEPT ![pk].technologies =
                                    Append(@, technology)]
                /\ request' = Answer("portfolio-projects", "add_technology", authenticated,
                                     pk, 200, "added successfully!",
                                     <<[op |-> "project.save"]>>)
                /\ UNCHANGED <<resumes, related>>

\* POST portfolio-projects/<pk>/remove_technology/
RemoveTechnology(authenticated, pk, raw) ==
    /\ ApiStep
    /\ LET technology == StrStrip(raw)
       IN  IF ~PortfolioPermitted("remove_technology", authenticated)
           THEN NoWrite("portfolio-projects", "remove_technology", authenticated, pk, 401, "")
           ELSE IF ~PortfolioFound(pk)
           THEN NoWrite("portfolio-projects", "remove_technology", authenticated, pk, 404, "")
           ELSE IF ~Truthy(technology)
           THEN NoWrite("portfolio-projects", "remove_technology", authenticated, pk, 400,
                        "Technology field is required")
           ELSE IF ~InList(technology, portfolio[pk].technologies)
           THEN NoWrite("portfolio-projects", "remove_technology", authenticated, pk, 200,
                        "removed successfully!")
           ELSE /\ portfolio' = [portfolio EXCEPT ![pk].technologies =
                                    ListRemove(@, technology)]
                /\ request' = Answer("portfolio-projects", "remove_technology",
                                     authenticated, pk, 200, "removed successfully!",
                                     <<[op |-> "project.save"]>>)
                /\ UNCHANGED <<resumes, related>>

\* DELETE portfolio-projects/<pk>/remove_image/
RemoveImage(authenticated, pk, destroy_ok) ==
    /\ ApiStep
    /\ IF ~PortfolioPermitted("remove_image", authenticated)
       THEN NoWrite("portfolio-projects", "remove_image", authenticated, pk, 401, "")
       ELSE IF ~PortfolioFound(pk)
       THEN NoWrite("portfolio-projects", "remove_image", authenticated, pk, 404, "")
       ELSE IF portfolio[pk].image = NoFile
       THEN NoWrite("portfolio-projects", "remove_image", authenticated, pk, 200,
                    "No image to remove")
       ELSE IF ~destroy_ok
       THEN NoWrite("portfolio-projects", "remove_image", authenticated, pk, 500,
                    "Failed to remove image")
       ELSE /\ portfolio' = [portfolio EXCEPT ![pk].image = NoFile]
            /\ request' = Answer("portfolio-projects", "remove_image", authenticated, pk,
                                 200, "Project image removed successfully!",
                                 <<[op |-> "destroy", status |-> "returned"],
                                   [op |-> "project.save"]>>)
            /\ UNCHANGED <<resumes, related>>

-----------------------------------------------------------------------------
(* The API as a state machine: one action per request *)

\* the rows PortfolioProject holds when the API starts; its own create
\* cannot add one
PortfolioRows ==
    {[featured |-> f, technologies |-> tl, image |-> im] :
        f \in BOOLEAN,
        tl \in {<<>>, <<SkillGo>>},
        im \in {NoFile, [public_id |-> "projects/image"]}}

\* request.data['technology'], absent, padded or plain
TechnologyInputs == {<<>>, SkillGo, <<" ">> \o SkillSql \o <<" ">>}

\* the renderer is reached through the handlers only
RendererIdle ==
    /\ resume = BareResume(NameJo)
    /\ nulls_largest = FALSE
    /\ gens = [g \in Generators |-> NoGenerator]
    /\ last = NoCall
    /\ prev = NoCall

InitViews ==
    /\ RendererIdle
    /\ resumes = [id \in ResumeIds |-> NoRow]
    /\ related = [id \in RowIds |-> NoRow]
    /\ portfolio \in [ProjectIds -> PortfolioRows \cup {NoRow}]
    /\ request = NoRequest
    /\ renders = NoRenders

InitWrites == RendererIdle /\ ApiIdle

ResumeRequest ==
    \/ \E a \in BOOLEAN, n \in ResumeNames, t \in ViewInstants, io \in IoOutcomes :
            ResumeCreate(a, n, t, io)
    \/ \E a \in BOOLEAN, pk \in ResumeIds, n \in ResumeNames, t \in ViewInstants,
            io \in IoOutcomes :
            ResumeUpdate(a, pk, n, t, io)
    \/ \E a \in BOOLEAN, pk \in ResumeIds : ResumeDestroy(a, pk)
    \/ \E a \in BOOLEAN, pk \in ResumeIds : ResumeRetrieve(a, pk)
    \/ \E a \in BOOLEAN, pk \in ResumeIds, head \in HeadOutcomes :
            DownloadPdf(a, pk, head)
    \/ \E a \in BOOLEAN, pk \in ResumeIds : PdfUrl(a, pk)
    \/ \E a \in BOOLEAN, pk \in ResumeIds, t \in ViewInstants, io \in IoOutcomes :
            GeneratePdf(a, pk, t, io)
    \/ \E a \in BOOLEAN : Active(a)
    \/ \E a \in BOOLEAN, pk \in ResumeIds : SetActive(a, pk)
    \/ \E a \in BOOLEAN, pk \in ResumeIds, ok \in BOOLEAN : DeletePdf(a, pk, ok)

PortfolioRequest ==
    \/ \E a \in BOOLEAN : PortfolioCreate(a)
    \/ \E a \in BOOLEAN, pk \in ProjectIds, f \in BOOLEAN : PortfolioUpdate(a, pk, f)
    \/ \E a \in BOOLEAN, pk \in ProjectIds : PortfolioRetrieve(a, pk)
    \/ \E a \in BOOLEAN, pk \in ProjectIds, ok \in BOOLEAN : PortfolioDestroy(a, pk, ok)
    \/ \E a \in BOOLEAN, pk \in ProjectIds : ToggleFeatured(a, pk)
    \/ \E a \in BOOLEAN, pk \in ProjectIds, raw \in TechnologyInputs :
            AddTechnology(a, pk, raw)
    \/ \E a \in BOOLEAN, pk \in ProjectIds, raw \in TechnologyInputs :
            RemoveTechnology(a, pk, raw)
    \/ \E a \in BOOLEAN, pk \in ProjectIds, ok \in BOOLEAN : RemoveImage(a, pk, ok)

NextViews == ResumeRequest \/ PortfolioRequest

\* the requests that write a resume or a row of one and regenerate its PDF
NextWrites ==
    \/ \E a \in BOOLEAN, n \in ResumeNames, t \in ViewInstants, io \in IoOutcomes :
            ResumeCreate(a, n, t, io)
    \/ \E a \in BOOLEAN, pk \in ResumeIds, n \in ResumeNames, t \in ViewInstants,
            io \in IoOutcomes :
            ResumeUpdate(a, pk, n, t, io)
    \/ \E a \in BOOLEAN, pk \in ResumeIds, t \in ViewInstants, io \in IoOutcomes :
            GeneratePdf(a, pk, t, io)
    \/ \E a \in BOOLEAN, k \in Kinds, fk \in ResumeIds, t \in ViewInstants,
            io \in IoOutcomes :
            RelatedCreate(a, k, fk, t, io)
    \/ \E a \in BOOLEAN, k \in Kinds, pk \in RowIds, fk \in ResumeIds, rev \in {0, 1},
            t \in ViewInstants, io \in IoOutcomes :
            RelatedUpdate(a, k, pk, fk, rev, t, io)
    \/ \E a \in BOOLEAN, k \in Kinds, pk \in RowIds, t \in ViewInstants,
            io \in IoOutcomes :
            RelatedDestroy(a, k, pk, t, io)

SpecViews == InitViews /\ [][NextViews]_vars

SpecWrites == InitWrites /\ [][NextWrites]_vars

-----------------------------------------------------------------------------
(* Regenerations running side by side, statement by statement *)

\* the resumes being regenerated: a bare one, one with every section but
\* projects, one with a project
RenderResumes ==
    {BareResume(NameAb),
     [BareResume(NameJo) EXCEPT !.email = EmailText,
                                !.summary = <<"a"," "," ","b">>,
                                !.experiences = <<SampleExperience>>,
                                !.skills = <<[name |-> SkillGo, level |-> LevelExpert]>>,
                                !.educations = <<SampleEducation>>],
     [BareResume(NameJo) EXCEPT !.resume_projects = <<SampleProject>>]}

\* the sections of generate_resume_pdf before the footer, in program order
Sections == <<"header", "summary", "experience", "skills", "projects", "education">>

\* the statement after section number i
AfterSection(i) == IF i < Len(Sections) THEN Sections[i + 1] ELSE "footer"

\* a constructor call: the new object is at an address nothing is at yet
New(objects, value) ==
    LET ref == CHOOSE a \in Refs :
                   objects[a] = NoRender /\ \A b \in Refs : objects[b] = NoRender => a <= b
    IN  [ref |-> ref, objects |-> [objects EXCEPT ![ref] = value]]

\* what section sec appends for resume r with generator self, and whether it
\* raises after appending
SectionBlocks(self, r, sec) ==
    IF sec = "header"
    THEN IF HeaderRaises(r) THEN [blocks |-> <<Spacer(1)>>, raised |-> TRUE]
         ELSE [blocks |-> HeaderBlocks(self, r), raised |-> FALSE]
    ELSE IF sec = "summary" THEN [blocks |-> SummaryBlocks(self, r), raised |-> FALSE]
    ELSE IF sec = "experience"
    THEN [blocks |-> ExperienceBlocks(self, r, FALSE), raised |-> FALSE]
    ELSE IF sec = "skills" THEN [blocks |-> SkillsBlocks(self, r), raised |-> FALSE]
    ELSE IF sec = "projects" THEN ProjectsBlocks(self, r)
    ELSE [blocks |-> EducationBlocks(self, r, FALSE), raised |-> FALSE]

RenderStep == UNCHANGED <<resume, nulls_largest, gens, last, prev,
                          resumes, related, portfolio, request>>

\* pdf_generator = ResumePDFGenerator(), in a regeneration of resume r
RenderConstruct(p, r) ==
    /\ RenderStep
    /\ renders.threads[p] = NoRender
    /\ LET made == New(renders.objects, NewGenerator)
       IN  renders' = [threads |-> [renders.threads EXCEPT ![p] =
                                       [pc |-> "begin", resume |-> r, self |-> made.ref,
                                        time |-> NoRender]],
                       objects |-> made.objects]

\* buffer = BytesIO() and story = [], with story bound to a list that is
\* already there when another regeneration has one
RenderBeginSharedStory(p) ==
    /\ RenderStep
    /\ renders.threads[p] # NoRender
    /\ renders.threads[p].pc = "begin"
    /\ LET th == renders.threads[p]
           buf == New(renders.objects, [pos |-> 0, document |-> <<>>])
           others == {q \in Renders : /\ renders.threads[q] # NoRender
                                      /\ renders.threads[q].pc # "begin"}
           story == IF others = {} THEN New(buf.objects, <<>>)
                    ELSE [ref |-> renders.threads[CHOOSE q \in others : TRUE].story,
                          objects |-> buf.objects]
       IN  renders' = [threads |-> [renders.threads EXCEPT ![p] =
                                       [pc |-> "header", resume |-> th.resume,
                                        self |-> th.self, time |-> th.time,
                                        buffer |-> buf.ref, story |-> story.ref]],
                       objects |-> story.objects]

\* buffer = BytesIO(); doc = SimpleDocTemplate(buffer, ...); story = []
RenderBegin(p) ==
    /\ RenderStep
    /\ renders.threads[p] # NoRender
    /\ renders.threads[p].pc = "begin"
    /\ LET th == renders.threads[p]
           buf == New(renders.objects, [pos |-> 0, document |-> <<>>])
           story == New(buf.objects, <<>>)
       IN  renders' = [threads |-> [renders.threads EXCEPT ![p] =
                                       [pc |-> "header", resume |-> th.resume,
                                        self |-> th.self, time |-> th.time,
                                        buffer |-> buf.ref, story |-> story.ref]],
                       objects |-> story.objects]

\* one section of generate_resume_pdf: its story.append calls, or its raise
RenderSection(p) ==
    /\ RenderStep
    /\ renders.threads[p] # NoRender
    /\ \E i \in 1..Len(Sections) :
        /\ renders.threads[p].pc = Sections[i]
        /\ LET th == renders.threads[p]
               sec == SectionBlocks(renders.objects[th.self], th.resume, Sections[i])
           IN  renders' =
                   [threads |-> [renders.threads EXCEPT ![p].pc =
                                    IF sec.raised THEN "raised" ELSE AfterSection(i)],
                    objects |-> [renders.objects EXCEPT ![th.story] = @ \o sec.blocks]]

\* the footer: current_time = timezone.now() and the last two appends
RenderFooter(p, t) ==
    /\ RenderStep
    /\ renders.threads[p] # NoRender
    /\ renders.threads[p].pc = "footer"
    /\ LET th == renders.threads[p]
       IN  renders' =
               [threads |-> [renders.threads EXCEPT ![p].pc = "build", ![p].time = t],
                objects |-> [renders.objects EXCEPT ![th.story] =
                                @ \o FooterBlocks(renders.objects[th.self], t)]]

\* doc.build(story); buffer.seek(0); return buffer
RenderBuild(p) ==
    /\ RenderStep
    /\ renders.threads[p] # NoRender
    /\ renders.threads[p].pc = "build"
    /\ LET th == renders.threads[p]
       IN  renders' =
               [threads |-> [renders.threads EXCEPT ![p].pc = "returned"],
                objects |-> [renders.objects EXCEPT ![th.buffer] =
                                [pos |-> 0, document |-> renders.objects[th.story]]]]

InitRenders == RendererIdle /\ ApiIdle

NextRenders ==
    \/ \E p \in Renders, r \in RenderResumes : RenderConstruct(p, r)
    \/ \E p \in Renders : RenderBegin(p)
    \/ \E p \in Renders : RenderSection(p)
    \/ \E p \in Renders, t \in Instants : RenderFooter(p, t)
    \/ \E p \in Renders : RenderBuild(p)

SpecRenders == InitRenders /\ [][NextRenders]_vars

-----------------------------------------------------------------------------
(* Mutating requests on one resume running side by side, call by call *)

\* the requests: an update of the resume's name, and creates of related rows
RaceRequests ==
    {[action |-> "update", name |-> NameJo],
     [action |-> "create", kind |-> "experiences"],
     [action |-> "create", kind |-> "skills"]}

\* cloudinary.uploader.upload(..., public_id=..., overwrite=True): the raw
\* files Cloudinary holds afterwards
Stored(files, uploaded) ==
    {f \in files : f.public_id # uploaded.public_id} \cup {uploaded}

\* resume 1 is stored, with no related rows and no PDF; no request has begun
InitRaces ==
    /\ RendererIdle
    /\ resumes = [id \in ResumeIds |->
                     IF id = 1
                     THEN [name |-> NameAb, is_active |-> TRUE, pdf_file |-> NoFile]
                     ELSE NoRow]
    /\ related = [id \in RowIds |-> NoRow]
    /\ portfolio = [id \in ProjectIds |-> NoRow]
    /\ request = NoRequest
    /\ renders = [threads |-> [p \in Renders |-> NoRender], files |-> {}]

RaceStep == UNCHANGED <<resume, nulls_largest, gens, last, prev, portfolio, request>>

\* the request reaches its handler: update has loaded the resume with
\* get_object, create has a valid serializer
RaceBegin(p, req) ==
    /\ RaceStep
    /\ renders.threads[p] = NoRender
    /\ ResumeFound(1)
    /\ renders' = [renders EXCEPT !.threads[p] =
                      [pc |-> "save", req |-> req,
                       instance |-> IF req.action = "update" THEN resumes[1] ELSE NoRow,
                       buffer |-> NoBuffer, result |-> NoFile]]
    /\ UNCHANGED <<resumes, related>>

\* serializer.save(): update writes every field of the instance it loaded;
\* create inserts the row, and instance.resume then loads the resume
RaceSave(p) ==
    /\ RaceStep
    /\ renders.threads[p] # NoRender
    /\ renders.threads[p].pc = "save"
    /\ LET th == renders.threads[p]
       IN  IF th.req.action = "update"
           THEN /\ resumes' = [resumes EXCEPT ![1] =
                                  [th.instance EXCEPT !.name = th.req.name]]
                /\ renders' = [renders EXCEPT !.threads[p].pc = "render",
                                              !.threads[p].instance.name = th.req.name]
                /\ UNCHANGED related
           ELSE /\ Free(related) # {}
                /\ related' = [related EXCEPT ![NewId(related)] =
                                  [kind |-> th.req.kind, resume |-> 1, rev |-> 0]]
                /\ renders' = [renders EXCEPT !.threads[p].pc = "render",
                                              !.threads[p].instance = resumes[1]]
                /\ UNCHANGED resumes

\* pdf_buffer = ResumePDFGenerator().generate_resume_pdf(resume): the header
\* from the instance held, the sections from the rows stored now
RaceRender(p, t) ==
    /\ RaceStep
    /\ renders.threads[p] # NoRender
    /\ renders.threads[p].pc = "render"
    /\ renders' = [renders EXCEPT
                      !.threads[p].pc = "upload",
                      !.threads[p].buffer =
                          GenerateResumePdf(
                              NewGenerator,
                              ResumeInstance([resumes EXCEPT ![1] =
                                                 renders.threads[p].instance],
                                             related, 1),
                              FALSE, t).buffer]
    /\ UNCHANGED <<resumes, related>>

\* result = cloudinary.uploader.upload(pdf_buffer, public_id=public_id,
\* overwrite=True, ...)
RaceUpload(p) ==
    /\ RaceStep
    /\ renders.threads[p] # NoRender
    /\ renders.threads[p].pc = "upload"
    /\ LET th == renders.threads[p]
           public_id == PublicId(1, th.instance.name)
       IN  renders' = [renders EXCEPT
                          !.threads[p].pc = "resume.save",
                          !.threads[p].result = [public_id |-> public_id],
                          !.files = Stored(@, [public_id |-> public_id,
                                               file |-> th.buffer])]
    /\ UNCHANGED <<resumes, related>>

\* resume.pdf_file = result; resume.save(): every field of the instance held
\* is written to the row
RaceResumeSave(p) ==
    /\ RaceStep
    /\ renders.threads[p] # NoRender
    /\ renders.threads[p].pc = "resume.save"
    /\ LET th == renders.threads[p]
       IN  /\ resumes' = [resumes EXCEPT ![1] =
                             [th.instance EXCEPT !.pdf_file = th.result]]
           /\ renders' = [renders EXCEPT !.threads[p].pc = "done",
                                         !.threads[p].instance.pdf_file = th.result]
    /\ UNCHANGED related

NextRaces ==
    \/ \E p \in Renders, req \in RaceRequests : RaceBegin(p, req)
    \/ \E p \in Renders : RaceSave(p)
    \/ \E p \in Renders, t \in ViewInstants : RaceRender(p, t)
    \/ \E p \in Renders : RaceUpload(p)
    \/ \E p \in Renders : RaceResumeSave(p)

SpecRaces == InitRaces /\ [][NextRaces]_vars

-----------------------------------------------------------------------------
(* Reading a call's story *)

\* the calls made so far
Calls == {c \in {last, prev} : c # NoCall}

IsNotSpacer(b) == b.kind # "Spacer"

NonSpacers(story) == SelectSeq(story, IsNotSpacer)

\* the blocks of story that section sec appended, in story order
BlocksOf(res, sec) ==
    LET InSec(i) == res.secs[i] = sec
        idx == SelectSeq([i \in 1..Len(res.story) |-> i], InSec)
    IN  [k \in 1..Len(idx) |-> res.story[idx[k]]]

IsTable(b) == b.kind = "Table"

TablesOf(res, sec) == SelectSeq(BlocksOf(res, sec), IsTable)

\* the date range a table shows: the right cell of its first row
DateText(tbl) == tbl.data[1][2].text

SepIndex(text) ==
    CHOOSE i \in 1..Len(text) : text[i] = " - " /\ \A j \in 1..(i - 1) : text[j] # " - "

StartSide(text) == SubSeq(text, 1, SepIndex(text) - 1)

EndSide(text) == SubSeq(text, SepIndex(text) + 1, Len(text))

\* how often a section header with this title is in the story
HeaderCount(story, title) ==
    Cardinality({i \in 1..Len(story) :
        /\ story[i].kind = "Paragraph"
        /\ story[i].style.name = "SectionTitle"
        /\ story[i].text = <<title>>})

-----------------------------------------------------------------------------
(* C1 *)

NameOnly(r) ==
    /\ Truthy(r.name)
    /\ ~Truthy(r.email) /\ ~Truthy(r.phone) /\ ~Truthy(r.location)
    /\ ~Truthy(r.summary)
    /\ ~Truthy(r.linkedin_url) /\ ~Truthy(r.github_url) /\ ~Truthy(r.portfolio_url)
    /\ r.experiences = <<>> /\ r.skills = <<>>
    /\ r.resume_projects = <<>> /\ r.educations = <<>>

\* text is name with every lower-case letter replaced by its upper-case one
IsUpperCased(text, name) ==
    /\ Len(text) = Len(name)
    /\ \A i \in 1..Len(name) :
        ~IsLower(text[i]) /\ CharLower(text[i]) = CharLower(name[i])

\* C1: for a resume whose only non-empty field is name, generate_resume_pdf
\* returns, and apart from spacers its story is exactly the upper-cased name
\* in the title style, the footer rule and the "Generated on ..." line: no
\* contact line, no links line, no section header.
C1_NameOnlyIsTitleAndFooter ==
    \A c \in Calls :
        NameOnly(resume) =>
            /\ c.result.status = "returned"
            /\ c.result.buffer # NoBuffer
            /\ LET ns == NonSpacers(c.result.story)
               IN  /\ Len(ns) = 3
                   /\ ns[1].kind = "Paragraph"
                   /\ ns[1].style.name = "NameTitle"
                   /\ IsUpperCased(ns[1].text, resume.name)
                   /\ ns[2].kind = "HRFlowable"
                   /\ ns[3].kind = "Paragraph"
                   /\ Head(ns[3].text) = "Generated on "

C1_Witness ==
    \E c \in Calls :
        /\ NameOnly(resume)
        /\ resume.name = NameAb
        /\ c.result.status = "returned"

-----------------------------------------------------------------------------
(* C2 *)

\* C2: generate_resume_pdf does not raise for any well-typed resume: every
\* call returns a buffer, and for a resume with projects the story holds the
\* projects section.
C2_NeverRaises ==
    \A c \in Calls :
        /\ c.result.status = "returned"
        /\ c.result.buffer # NoBuffer
        /\ resume.resume_projects # <<>> => HeaderCount(c.result.story, "PROJECTS") = 1

-----------------------------------------------------------------------------
(* C3, C4 *)

\* the rows of a relation in the order the section renders them
Rendered(rows) == OrderByStartDateDesc(rows, nulls_largest)

\* every row has its table, in rendering order
TablesMatch(res, sec, rows) == Len(TablesOf(res, sec)) = Len(rows)

\* C3: every experience and every education with current = true is rendered
\* with "Present" after " - ", whatever its end_date.
C3_CurrentEndsPresent ==
    \A c \in Calls :
        c.result.status = "returned" =>
            /\ TablesMatch(c.result, "experience", resume.experiences)
            /\ TablesMatch(c.result, "education", resume.educations)
            /\ \A k \in 1..Len(resume.experiences) :
                Rendered(resume.experiences)[k].current =>
                    EndSide(DateText(TablesOf(c.result, "experience")[k])) = <<"Present">>
            /\ \A k \in 1..Len(resume.educations) :
                Rendered(resume.educations)[k].current =>
                    EndSide(DateText(TablesOf(c.result, "education")[k])) = <<"Present">>

C3_Witness ==
    \E c \in Calls :
        /\ c.result.status = "returned"
        /\ \E k \in 1..Len(resume.experiences) :
            /\ resume.experiences[k].current
            /\ resume.experiences[k].end_date # NoneDate
        /\ TablesOf(c.result, "experience") # <<>>

\* C4: an experience or education with current = false and no end_date is
\* rendered with nothing after " - ", and one with no start_date with nothing
\* before it: with neither, the range is " - ".
C4_AbsentDatesAreEmpty ==
    \A c \in Calls :
        c.result.status = "returned" =>
            /\ TablesMatch(c.result, "experience", resume.experiences)
            /\ TablesMatch(c.result, "education", resume.educations)
            /\ \A k \in 1..Len(resume.experiences) :
                LET e == Rendered(resume.experiences)[k]
                    text == DateText(TablesOf(c.result, "experience")[k])
                IN  /\ (~e.current /\ e.end_date = NoneDate) => EndSide(text) = <<>>
                    /\ e.start_date = NoneDate => StartSide(text) = <<>>
            /\ \A k \in 1..Len(resume.educations) :
                LET e == Rendered(resume.educations)[k]
                    text == DateText(TablesOf(c.result, "education")[k])
                IN  /\ (~e.current /\ e.end_date = NoneDate) => EndSide(text) = <<>>
                    /\ e.start_date = NoneDate => StartSide(text) = <<>>

C4_Witness ==
    \E c \in Calls :
        /\ c.result.status = "returned"
        /\ resume.educations # <<>>
        /\ ~resume.educations[1].current
        /\ resume.educations[1].end_date = NoneDate
        /\ resume.educations[1].start_date = NoneDate
        /\ DateText(TablesOf(c.result, "education")[1]) = <<" - ">>

-----------------------------------------------------------------------------
(* C5, C6 *)

\* the skills section after its header: label, line, spacer per bucket
SkillBody(res) ==
    LET blocks == BlocksOf(res, "skills")
    IN  SubSeq(blocks, 4, Len(blocks))

SkillBodyWellFormed(res) ==
    LET body == SkillBody(res)
    IN  /\ Len(body) % 3 = 0
        /\ \A k \in 1..(Len(body) \div 3) :
            /\ body[3 * k - 2].kind = "Paragraph"
            /\ body[3 * k - 2].style.name = "Position"
            /\ Len(body[3 * k - 2].text) >= 2
            /\ body[3 * k - 1].kind = "Paragraph"
            /\ body[3 * k - 1].style.name = "CustomBodyText"
            /\ body[3 * k].kind = "Spacer"

\* the buckets shown, in story order: the level in each label and the names
\* in the line under it
ShownBuckets(res) ==
    LET body == SkillBody(res)
    IN  [k \in 1..(Len(body) \div 3) |->
            [level |-> SubSeq(body[3 * k - 2].text, 2, Len(body[3 * k - 2].text) - 1),
             names |-> StrSplitOn(body[3 * k - 1].text, ", ")]]

\* level names bucket, whatever the case of its letters
NamesBucket(level, bucket) ==
    /\ level # NoneText
    /\ Len(level) = Len(bucket)
    /\ \A i \in 1..Len(bucket) : CharLower(level[i]) = CharLower(bucket[i])

\* the names of the named skills of a bucket, in input order
NamedIn(skills, bucket) ==
    LET Hit(sk) == Truthy(sk.name) /\ NamesBucket(sk.level, bucket)
        hits == SelectSeq(skills, Hit)
    IN  [i \in 1..Len(hits) |-> hits[i].name]

BucketIfAny(skills, bucket) ==
    IF NamedIn(skills, bucket) # <<>>
    THEN <<[level |-> bucket, names |-> NamedIn(skills, bucket)]>>
    ELSE <<>>

\* C5: the labels shown are those of the non-empty buckets among Expert,
\* Advanced, Intermediate, Beginner, in that order and once each; the line of
\* a bucket is the comma-joined names of its skills in input order; no skill
\* with an empty or absent name is in any line.
C5_BucketsInFixedOrder ==
    \A c \in Calls :
        (c.result.status = "returned" /\ resume.skills # <<>>) =>
            /\ SkillBodyWellFormed(c.result)
            /\ ShownBuckets(c.result) =
                BucketIfAny(resume.skills, Expert)
                \o BucketIfAny(resume.skills, Advanced)
                \o BucketIfAny(resume.skills, Intermediate)
                \o BucketIfAny(resume.skills, Beginner)

C5_Witness ==
    \E c \in Calls :
        /\ c.result.status = "returned"
        /\ Len(resume.skills) = 2
        /\ Truthy(resume.skills[1].name) /\ NamesBucket(resume.skills[1].level, Beginner)
        /\ Truthy(resume.skills[2].name) /\ NamesBucket(resume.skills[2].level, Expert)
        /\ Len(ShownBuckets(c.result)) = 2
        /\ ShownBuckets(c.result)[1].level = Expert

\* how often x is an element of seq
CountIn(seq, x) == Cardinality({i \in 1..Len(seq) : seq[i] = x})

RECURSIVE SumOver(_, _)
SumOver(f, n) == IF n = 0 THEN 0 ELSE f[n] + SumOver(f, n - 1)

\* how often name is shown in the lines of the skills section
TimesShown(res, name) ==
    LET shown == ShownBuckets(res)
    IN  SumOver([k \in 1..Len(shown) |-> CountIn(shown[k].names, name)], Len(shown))

\* how many skills have this name
TimesStored(skills, name) ==
    Cardinality({i \in 1..Len(skills) : skills[i].name = name})

\* C6: every skill with a non-empty name is shown exactly once, in the line
\* of the bucket of its level or of a fallback bucket: none is left out.
C6_EveryNamedSkillShown ==
    \A c \in Calls :
        c.result.status = "returned" =>
            \A i \in 1..Len(resume.skills) :
                Truthy(resume.skills[i].name) =>
                    TimesShown(c.result, resume.skills[i].name)
                        = TimesStored(resume.skills, resume.skills[i].name)

-----------------------------------------------------------------------------
(* C7 *)

HasNonWhitespace(text) ==
    text # NoneText /\ \E i \in 1..Len(text) : text[i] \notin Whitespace

Once(present) == IF present THEN 1 ELSE 0

\* C7: each section header is in the story once if its collection is
\* non-empty (for the summary: if it holds a non-whitespace character) and
\* not at all otherwise.
C7_HeadersFollowData ==
    \A c \in Calls :
        /\ HeaderCount(c.result.story, "PROFESSIONAL SUMMARY")
            = Once(HasNonWhitespace(resume.summary))
        /\ HeaderCount(c.result.story, "PROFESSIONAL EXPERIENCE")
            = Once(resume.experiences # <<>>)
        /\ HeaderCount(c.result.story, "TECHNICAL SKILLS") = Once(resume.skills # <<>>)
        /\ HeaderCount(c.result.story, "PROJECTS") = Once(resume.resume_projects # <<>>)
        /\ HeaderCount(c.result.story, "EDUCATION") = Once(resume.educations # <<>>)

-----------------------------------------------------------------------------
(* C8 *)

\* the story without the footer's timestamp line, the last block of a story
\* that was built to the end
ButTimestamp(res) ==
    IF res.status = "returned"
    THEN SubSeq(res.story, 1, Len(res.story) - 1)
    ELSE res.story

TimestampLine(res) == res.story[Len(res.story)]

-----------------------------------------------------------------------------
(* C9 *)

\* the summary with every maximal run of whitespace replaced by one space and
\* none at either end: position i of text is kept when it holds a
\* non-whitespace character, or starts a run that has such a character
\* before it and after it
Collapsed(text) ==
    LET Starts(i) ==
            /\ text[i] \in Whitespace
            /\ i > 1 /\ text[i - 1] \notin Whitespace
            /\ \E j \in (i + 1)..Len(text) : text[j] \notin Whitespace
        Kept(i) == text[i] \notin Whitespace \/ Starts(i)
        idx == SelectSeq([i \in 1..Len(text) |-> i], Kept)
    IN  [k \in 1..Len(idx) |->
            IF text[idx[k]] \in Whitespace THEN " " ELSE text[idx[k]]]

\* the summary section after its header
SummaryBody(res) ==
    LET blocks == BlocksOf(res, "summary")
    IN  SubSeq(blocks, 4, Len(blocks))

\* C9: a summary with a non-whitespace character is emitted as exactly one
\* block in the summary style, whose text is the summary with every maximal
\* run of spaces, tabs and newlines replaced by one space and no whitespace
\* at either end.
C9_SummaryIsCollapsed ==
    \A c \in Calls :
        HasNonWhitespace(resume.summary) =>
            /\ Len(SummaryBody(c.result)) = 1
            /\ SummaryBody(c.result)[1].kind = "Paragraph"
            /\ SummaryBody(c.result)[1].style.name = "SummaryText"
            /\ SummaryBody(c.result)[1].text = Collapsed(resume.summary)

C9_Witness ==
    \E c \in Calls :
        /\ resume.summary = <<"a", "\n", " ", "b">>
        /\ SummaryBody(c.result)[1].text = <<"a", " ", "b">>

-----------------------------------------------------------------------------
(* C10 *)

SectionOrder ==
    <<"header", "summary", "experience", "skills", "projects", "education", "footer">>

SectionTitles ==
    <<"", "PROFESSIONAL SUMMARY", "PROFESSIONAL EXPERIENCE", "TECHNICAL SKILLS",
      "PROJECTS", "EDUCATION", "">>

Rank(sec) == CHOOSE i \in 1..Len(SectionOrder) : SectionOrder[i] = sec

\* C10: the blocks of a story are in the order Header, Summary, Experience,
\* Skills, Projects, Education, Footer: no block of a later section is before
\* a block of an earlier one, every section header is in the section it
\* names, and the name title is the first block that is no spacer.
C10_SectionsInFixedOrder ==
    \A c \in Calls :
        LET story == c.result.story
            secs == c.result.secs
        IN  /\ \A i \in 1..(Len(story) - 1) : Rank(secs[i]) <= Rank(secs[i + 1])
            /\ \A i \in 1..Len(story) :
                (story[i].kind = "Paragraph" /\ story[i].style.name = "SectionTitle")
                    => story[i].text = <<SectionTitles[Rank(secs[i])]>>
            /\ NonSpacers(story)[1].kind = "Paragraph"
            /\ NonSpacers(story)[1].style.name = "NameTitle"
            /\ c.result.status = "returned" =>
                /\ secs[Len(secs)] = "footer"
                /\ Head(story[Len(story)].text) = "Generated on "

C10_Witness ==
    \E c \in Calls :
        /\ c.result.status = "returned"
        /\ HeaderCount(c.result.story, "PROFESSIONAL SUMMARY") = 1
        /\ HeaderCount(c.result.story, "PROFESSIONAL EXPERIENCE") = 1
        /\ HeaderCount(c.result.story, "TECHNICAL SKILLS") = 1
        /\ HeaderCount(c.result.story, "EDUCATION") = 1

-----------------------------------------------------------------------------
(* C11 *)

\* the text a start_date is shown as
StartText(e) ==
    IF e.start_date = NoneDate THEN <<>> ELSE StrftimeMonthYear(e.start_date)

\* the text an end is shown as
EndText(e) ==
    IF e.current THEN <<"Present">>
    ELSE IF e.end_date = NoneDate THEN <<>> ELSE StrftimeMonthYear(e.end_date)

\* table tbl is the table of entry e
ShowsEntry(tbl, e) ==
    /\ StartSide(DateText(tbl)) = StartText(e)
    /\ EndSide(DateText(tbl)) = EndText(e)

\* date d1 is before date d2
Before(d1, d2) ==
    \/ d1.y < d2.y
    \/ d1.y = d2.y /\ d1.m < d2.m
    \/ d1.y = d2.y /\ d1.m = d2.m /\ d1.d < d2.d

Orderings(n) ==
    {p \in [1..n -> 1..n] : \A i, j \in 1..n : i # j => p[i] # p[j]}

\* C11 as claimed: the k-th experience table of the story is the table of the
\* k-th experience of the resume, whatever the start dates: the renderer does
\* not re-sort.
C11_RenderedInInputOrder ==
    \A c \in Calls :
        c.result.status = "returned" =>
            /\ TablesMatch(c.result, "experience", resume.experiences)
            /\ \A k \in 1..Len(resume.experiences) :
                ShowsEntry(TablesOf(c.result, "experience")[k], resume.experiences[k])

\* C11 as amended: every experience has exactly one table, and the tables are
\* in descending order of start_date: no table of an entry with an earlier
\* start_date is before the table of one with a later start_date.
C11_RenderedByStartDateDesc ==
    \A c \in Calls :
        c.result.status = "returned" =>
            /\ TablesMatch(c.result, "experience", resume.experiences)
            /\ \E p \in Orderings(Len(resume.experiences)) :
                /\ \A k \in 1..Len(resume.experiences) :
                    ShowsEntry(TablesOf(c.result, "experience")[k],
                               resume.experiences[p[k]])
                /\ \A k, l \in 1..Len(resume.experiences) :
                    (/\ k < l
                     /\ resume.experiences[p[k]].start_date # NoneDate
                     /\ resume.experiences[p[l]].start_date # NoneDate)
                        => ~Before(resume.experiences[p[k]].start_date,
                                   resume.experiences[p[l]].start_date)

C11_Witness ==
    \E c \in Calls :
        /\ c.result.status = "returned"
        /\ Len(resume.experiences) = 2
        /\ resume.experiences[1].start_date = Date2019
        /\ resume.experiences[2].start_date = Date2020
        /\ StartSide(DateText(TablesOf(c.result, "experience")[1]))
            = StrftimeMonthYear(Date2020)

-----------------------------------------------------------------------------
(* C12 *)

\* the positions at which a line of text starts: the first, and the one after
\* every newline
IsLineStart(text, i) == i = 1 \/ text[i - 1] = "\n"

\* the last position of the line that starts at i (i - 1 for an empty line)
LineEnd(text, i) ==
    CHOOSE e \in (i - 1)..Len(text) :
        /\ \A j \in i..e : text[j] # "\n"
        /\ e = Len(text) \/ text[e + 1] = "\n"

\* the line that starts at i holds a character that is no whitespace
IsNonBlankLine(text, i) ==
    \E j \in i..LineEnd(text, i) : text[j] \notin Whitespace

\* the line that starts at i, from its first to its last character that is no
\* whitespace
TrimmedLine(text, i) ==
    LET solid == {j \in i..LineEnd(text, i) : text[j] \notin Whitespace}
        lo == CHOOSE j \in solid : \A k \in solid : j <= k
        hi == CHOOSE j \in solid : \A k \in solid : j >= k
    IN  SubSeq(text, lo, hi)

\* the starts of the non-blank lines of text, in order
NonBlankLineStarts(text) ==
    LET Hit(i) == IsLineStart(text, i) /\ IsNonBlankLine(text, i)
    IN  SelectSeq([i \in 1..Len(text) |-> i], Hit)

IsBullet(b) == b.kind = "Paragraph" /\ b.style.name = "CustomBodyText"

\* the bullet blocks of the experience section, in story order
BulletsOf(res) == SelectSeq(BlocksOf(res, "experience"), IsBullet)

\* C12: the bullets under an experience are as many as the lines of its
\* description that hold a non-whitespace character, in the order of the
\* lines, and the k-th bullet is the bullet character and a space, followed by
\* the k-th such line without the whitespace at its ends; a blank line has no
\* bullet.
C12_OneBulletPerNonBlankLine ==
    \A c \in Calls :
        (/\ c.result.status = "returned"
         /\ Len(resume.experiences) = 1
         /\ resume.experiences[1].description # NoneText) =>
            LET text == resume.experiences[1].description
                starts == NonBlankLineStarts(text)
                bullets == BulletsOf(c.result)
            IN  /\ Len(bullets) = Len(starts)
                /\ \A k \in 1..Len(starts) :
                    bullets[k].text = <<"[U+2022] ">> \o TrimmedLine(text, starts[k])

C12_Witness ==
    \E c \in Calls :
        /\ c.result.status = "returned"
        /\ Len(resume.experiences) = 1
        /\ resume.experiences[1].description = <<"b", "\n", " ", "a">>
        /\ Len(BulletsOf(c.result)) = 2
        /\ BulletsOf(c.result)[2].text = <<"[U+2022] ", "a">>

-----------------------------------------------------------------------------
(* C13 *)

\* the thin rule of the footer (the rules under the section headers are
\* thicker)
IsFooterRule(b) == b.kind = "HRFlowable" /\ b.halfpoints = 1

IsGeneratedOn(b) ==
    b.kind = "Paragraph" /\ b.text # <<>> /\ Head(b.text) = "Generated on "

\* C13: every story that generate_resume_pdf builds to the end has the thin
\* rule as its last block but one and the "Generated on ..." paragraph as its
\* last, and holds each of them once, whichever sections are in it.
C13_FooterEndsStory ==
    \A c \in Calls :
        c.result.status = "returned" =>
            LET story == c.result.story
            IN  /\ Len(story) >= 2
                /\ IsFooterRule(story[Len(story) - 1])
                /\ IsGeneratedOn(story[Len(story)])
                /\ Len(SelectSeq(story, IsFooterRule)) = 1
                /\ Len(SelectSeq(story, IsGeneratedOn)) = 1

C13_Witness ==
    \E c \in Calls :
        /\ c.result.status = "returned"
        /\ resume.educations # <<>>
        /\ resume.experiences # <<>>
        /\ IsGeneratedOn(c.result.story[Len(c.result.story)])
        /\ c.result.secs[Len(c.result.story) - 2] = "education"

-----------------------------------------------------------------------------
(* C14 *)

\* C14: for a resume whose name is None or the empty string,
\* generate_resume_pdf raises and hands back no buffer: no document with a
\* blank title is built.
C14_EmptyNameFailsFast ==
    \A c \in Calls :
        ~Truthy(resume.name) =>
            /\ c.result.status = "raised"
            /\ c.result.buffer = NoBuffer

-----------------------------------------------------------------------------
(* C19 *)

\* C19: a story with the TECHNICAL SKILLS header has at least one bucket
\* label with its line of skill names under it: the header is not emitted for
\* skills that are all without a name or all of an unknown level.
C19_SkillsHeaderHasBucket ==
    \A c \in Calls :
        (/\ c.result.status = "returned"
         /\ HeaderCount(c.result.story, "TECHNICAL SKILLS") > 0) =>
            /\ SkillBodyWellFormed(c.result)
            /\ Len(ShownBuckets(c.result)) >= 1

-----------------------------------------------------------------------------
(* C15 *)

\* C15: no request of a caller who is not authenticated changes a row of any
\* table, whichever endpoint of ResumeViewSet or PortfolioProjectViewSet it
\* goes to.
C15_PublicIsReadOnly ==
    [][~request'.authenticated =>
          (resumes' = resumes /\ related' = related /\ portfolio' = portfolio)]_vars

-----------------------------------------------------------------------------
(* C16 *)

\* the request is a create or update of a Resume, or a create, update or
\* destroy of a related row, that succeeded
IsMutatingWrite(req) ==
    /\ req.status \in {200, 201, 204}
    /\ \/ req.viewset = "resumes" /\ req.action \in {"create", "update"}
       \/ req.viewset \in Kinds /\ req.action \in {"create", "update", "destroy"}

\* the positions of the steps of a request that are one of ops
StepsAt(req, ops) == {i \in 1..Len(req.steps) : req.steps[i].op \in ops}

\* C16: a successful create or update of a Resume, and a successful create,
\* update or destroy of a related row, makes one record change and after it
\* exactly one render, of the owning resume (for a destroy: the resume the row
\* had before), and what is rendered is the resume as the change left it.
C16_WriteThenOneRegeneration ==
    [][IsMutatingWrite(request') =>
        LET req == request'
            owner == IF req.viewset = "resumes" THEN req.pk
                     ELSE IF req.action = "destroy" THEN related[req.pk].resume
                     ELSE related'[req.pk].resume
            writes == StepsAt(req, {"serializer.save", "instance.delete"})
            rendered == StepsAt(req, {"render"})
        IN  /\ Cardinality(writes) = 1
            /\ Cardinality(rendered) = 1
            /\ Cardinality(StepsAt(req, {"construct"})) = 1
            /\ \A w \in writes, r \in rendered :
                /\ w < r
                /\ req.steps[r].resume = owner
                /\ \E t \in ViewInstants :
                    req.steps[r].buffer =
                        GenerateResumePdf(NewGenerator,
                                          ResumeInstance(resumes', related', owner),
                                          FALSE, t).buffer
            /\ req.action = "destroy" => related'[req.pk] = NoRow]_vars

C16_Witness ==
    /\ request # NoRequest
    /\ request.viewset = "experiences"
    /\ request.action = "destroy"
    /\ request.status = 204
    /\ \E r \in StepsAt(request, {"render"}) : request.steps[r].status = "returned"

-----------------------------------------------------------------------------
(* C17 *)

\* C17: a render that returned handed back a buffer at offset 0 holding the
\* whole document, from the name title to the "Generated on ..." line; a render
\* that raised handed back no buffer, and its request uploaded nothing, saved
\* no resume and left the stored pdf_file as it was.
C17_AllOrNothing ==
    [][\A r \in StepsAt(request', {"render"}) :
        LET step == request'.steps[r]
        IN  /\ step.status = "returned" =>
                /\ step.buffer # NoBuffer
                /\ step.buffer.pos = 0
                /\ Len(step.buffer.document) >= 2
                /\ IsGeneratedOn(step.buffer.document[Len(step.buffer.document)])
                /\ NonSpacers(step.buffer.document)[1].style.name = "NameTitle"
            /\ step.status # "returned" =>
                /\ step.status = "raised"
                /\ step.buffer = NoBuffer
                /\ StepsAt(request', {"upload", "resume.save"}) = {}
                /\ resumes[step.resume] # NoRow =>
                    resumes'[step.resume].pdf_file = resumes[step.resume].pdf_file]_vars

C17_Witness ==
    /\ request # NoRequest
    /\ \E r \in StepsAt(request, {"render"}) :
        /\ request.steps[r].status = "raised"
        /\ resumes[request.steps[r].resume].pdf_file # NoFile

-----------------------------------------------------------------------------
(* C20 *)

\* C20: generate_pdf answers 'PDF generated successfully!' only if its
\* regeneration rendered the PDF, uploaded it and saved the resume with the
\* result in pdf_file; if one of the three failed it answers with status 500.
C20_SuccessOnlyIfStored ==
    (request # NoRequest /\ request.action = "generate_pdf"
        /\ request.status \in {200, 500}) =>
        LET done ==
                /\ \E i \in StepsAt(request, {"render"}) :
                    request.steps[i].status = "returned"
                /\ \E i \in StepsAt(request, {"upload"}) :
                    request.steps[i].status = "returned"
                /\ \E i \in StepsAt(request, {"resume.save"}) :
                    request.steps[i].status = "returned"
                /\ resumes[request.pk].pdf_file # NoFile
        IN  /\ request.body = "PDF generated successfully!" => done
            /\ ~done => request.status = 500

-----------------------------------------------------------------------------
(* C18 *)

\* the regenerations that have started
Started == {p \in Renders : renders.threads[p] # NoRender}

\* the objects regeneration p holds
Held(p) ==
    IF renders.threads[p].pc = "begin" THEN {renders.threads[p].self}
    ELSE {renders.threads[p].self, renders.threads[p].story, renders.threads[p].buffer}

IsPrefix(s, t) == Len(s) <= Len(t) /\ \A i \in 1..Len(s) : s[i] = t[i]

\* regeneration th has done what the call alone does: its story is a prefix
\* of that call's story, and once ended its story, outcome and buffer are
\* that call's
AsAlone(th, alone) ==
    /\ th.pc # "begin" => IsPrefix(renders.objects[th.story], alone.story)
    /\ th.pc \in {"returned", "raised"} =>
        /\ th.pc = alone.status
        /\ renders.objects[th.story] = alone.story
    /\ th.pc = "returned" => renders.objects[th.buffer] = alone.buffer

\* C18: under every interleaving of the regenerations, each holds a generator,
\* a story and a buffer that no other holds, its generator's style sheet is the
\* one a fresh ResumePDFGenerator has, its story is at every moment a prefix of
\* the story a call made alone builds for its resume, and when it has ended
\* its story, outcome and buffer are those of the call made alone.
C18_RendersAreIndependent ==
    /\ \A p, q \in Started : p # q => Held(p) \cap Held(q) = {}
    /\ \A p \in Started :
        LET th == renders.threads[p]
        IN  /\ renders.objects[th.self] = NewGenerator
            /\ \E t \in Instants :
                /\ th.time \in {NoRender, t}
                /\ AsAlone(th, GenerateResumePdf(NewGenerator, th.resume, FALSE, t))

C18_Witness ==
    /\ Started = Renders
    /\ renders.threads[1].pc = "returned"
    /\ renders.threads[2].pc = "skills"
    /\ renders.threads[1].resume = renders.threads[2].resume
    /\ Len(renders.objects[renders.threads[2].story]) > 0
    /\ renders.objects[renders.threads[1].buffer].document # <<>>

-----------------------------------------------------------------------------
(* C23 *)

\* the responses download_pdf composes itself
DownloadPdfResponses ==
    {[status |-> 200, body |-> "PDF is accessible"],
     [status |-> 500, body |-> "PDF not publicly accessible"],
     [status |-> 500, body |-> "URL generation failed"],
     [status |-> 404, body |-> "PDF not available"]}

\* C23: download_pdf on an active resume (one get_object finds) ends in one of
\* its own responses: success with download_url, one of its two 500 error
\* responses, or 404 'PDF not available'; never in an unhandled error.
C23_DownloadPdfAnswersItself ==
    (/\ request # NoRequest
     /\ request.action = "download_pdf"
     /\ ResumeFound(request.pk)) =>
        [status |-> request.status, body |-> request.body] \in DownloadPdfResponses

-----------------------------------------------------------------------------
(* C22 *)

\* C22: an authenticated set_active on a stored resume, active or not,
\* succeeds, and leaves that resume active and every other stored resume
\* inactive.
C22_SetActiveOnAnyStored ==
    [][(/\ request'.action = "set_active"
        /\ request'.authenticated
        /\ resumes[request'.pk] # NoRow) =>
           /\ request'.status = 200
           /\ \A id \in ResumeIds :
               resumes'[id] # NoRow => resumes'[id].is_active = (id = request'.pk)]_vars

-----------------------------------------------------------------------------
(* C21 *)

\* every request has begun and has run to its end
AllDone ==
    \A p \in Renders : renders.threads[p] # NoRender /\ renders.threads[p].pc = "done"

\* the file under the public id in resume 1's pdf_file is the PDF of the
\* records of resume 1 as they are stored
StoredPdfIsFresh ==
    /\ resumes[1].pdf_file # NoFile
    /\ \E f \in renders.files, t \in ViewInstants :
        /\ f.public_id = resumes[1].pdf_file.public_id
        /\ f.file = GenerateResumePdf(NewGenerator, ResumeInstance(resumes, related, 1),
                                      FALSE, t).buffer

\* the step is the resume.save() that ends a regeneration
IsRegenerationSave ==
    \E p \in Renders :
        /\ renders.threads[p] # NoRender
        /\ renders.threads[p].pc = "resume.save"
        /\ renders'.threads[p].pc = "done"

\* C21: under every interleaving of two mutating requests on one resume, the
\* resume.save() of a regeneration changes no field of the row but pdf_file,
\* and once both requests have ended the stored PDF is the one rendered from
\* the resume's records as they finally are.
C21_FreshAndNothingLost ==
    [][/\ IsRegenerationSave => resumes'[1].name = resumes[1].name
       /\ AllDone' => StoredPdfIsFresh']_vars

====
